---- MODULE Spec2Model ----
(***************************************************************************)
(* BLOOMIN Presence Display: the wake chain, the image pipeline and the    *)
(* delivery chain of BloominPresenceCoordinator (coordinator.py), with the *)
(* collaborators it calls (ble_wake.py, bloomin_api.py,                    *)
(* image_processor.py).                                                    *)
(*                                                                         *)
(* Python values are modelled as strings: "None", "True" and "False" are   *)
(* the Python constants, a path or a media_content_id is the string the    *)
(* code builds.  An external collaborator (radio, service registry,       *)
(* entity registry, file system, device) answers nondeterministically at   *)
(* the step that calls it.                                                 *)
(***************************************************************************)
EXTENDS Integers, Sequences, FiniteSets, TLC

VARIABLES
    cfg,            \* the coordinator's fields set by __init__
    pc,             \* position of the run inside process_and_upload_image / wake_device
    arg,            \* the image_path argument of the current run ("None" when omitted)
    ble,            \* wake channel 1 in this run: "untried", "skipped", "failed", "ok"
    wake_entity,    \* bloomin_entity local of wake_device: "unset", "None" or the entity id
    whistle,        \* wake channel 2 in this run: "untried", "skipped", "failed", "ok"
    http,           \* wake channel 3 in this run: "untried", "failed", "ok"
    wake_ret,       \* what wake_device gave its caller: "pending", "None", "True", "False", "raised"
    states,         \* hass.states as read by this run (configured person id -> state), <<>> before the read
    is_home,        \* the is_home local: "unset", "True", "False"
    image,          \* the image_path local after resolution: "unset", "None" or the path
    exists,         \* the existence check of that path before rendering: "unset", "True", "False"
    source,         \* the source image as the renderer finds it: "unset", "ok", "unreadable", "corrupt"
    processed,      \* processed_image: "unset", "bytes", or "raised" when the renderer raised
    entity,         \* bloomin_entity local of the delivery stage: "unset", "None" or the id
    timestamp,      \* the millisecond timestamp read for the output file name, 0 before
    written,        \* the output file: "unset", "failed" (write raised), "missing", "ok"
    idx,            \* index of the next media_content_id variant to try
    calls,          \* every media_player.play_media call of this run: its media_content_id
                    \* and whether it completed without error
    uploads,        \* number of BloominAPI.upload_image calls of this run
    stages,         \* the stages this run has entered, in order
    result,         \* what process_and_upload_image returned: "idle", "running", "True", "False", "raised"
    wake_env,       \* what the radio stack, the service registry and the whistle call answered in
                    \* the wake_device call of this run; forgotten when the run goes on to the persons
    \* one call of wake_device_via_ble or discover_ble_services (ble_wake.py)
    radio_in,       \* the function called and its arguments
    radio_pc,       \* position inside the call: "idle", "connect", "use", "finally", "returned"
    radio_addr,     \* the address the client is created for, "" before
    radio_char,     \* the characteristic the wake command was written to, "" before
    client,         \* the BLE client of the call: "none", "connected", "disconnected"
    radio_exc,      \* the exception in flight: "none" or its type
    disconnect,     \* client.disconnect() in this call: "uncalled", "ok", or the error it raised
    radio_ret,      \* the value returned, or about to be: "pending", "True", "False", "None", "dict"
    gatt,           \* the services the client enumerated in this call, <<>> when it enumerated none
    writes,         \* the write_gatt_char calls of this call, in order
    discovered,     \* what the last call of discover_ble_services returned, as validate_input keeps it
    \* one submission of the config flow or of the options flow
    flow_in,        \* the flow, the user_input submitted and what the registries and the disk hold
    flow_pc,        \* "idle", "test_ble", "test_whistle", "test_http", "form" (shown again), "done"
    mac_normalized, \* the validator's local of that name, "" when it was not computed
    errors,         \* errors["base"], "none" when errors is empty
    entry,          \* "none", or "created" once async_create_entry was called
    attempts,       \* the wake channels tried by the wake test of validate_input, in order,
                    \* each with whether it woke the device
    test_timeout,   \* the timeout the wake test gave its radio calls, in seconds; 0 before
    \* one call of ImageProcessor._create_overlay
    geom_in,        \* the image size, is_home, the overlay config, and the size of the text as the font gives it
    geom_pc,        \* "idle", "drawn"
    anchor,         \* the x, y that _calculate_position returned, <<>> before
    drawn,          \* what was drawn: the style, the bounding box of the shapes and the fill of the main shape
    \* a BloominAPI object and the last call of one of its methods
    api,            \* the fields set by BloominAPI.__init__
    api_req,        \* the last request: the method called, the URL, and what the device and the network did
    api_ret,        \* what the method returned: "pending", "True", "False", "raised"
    \* one call of get_image_path or get_latest_image on the coordinator
    disk,           \* what the file system holds: the kind of the configured path, and the media folder
    resolver,       \* the method called and what it gave: "pending", "None", "raise" or the path
    \* the invocations of ImageProcessor.add_presence_overlay on one processor
    renders,        \* each invocation so far, in order: its arguments, the fonts installed, the output
    \* one call of _find_bloomin_entity
    registry,       \* the entity registry and the config entries as the call finds them
    lookup,         \* what the call gave: "pending", "None", "raise" or the entity id
    \* one call of BloominAPI.discover_api_endpoints
    probes,         \* the requests made so far, in order: the function, the path, and whether it was accepted
    probe_resp,     \* what the device answered to the last request, kind "none" before the first
    endpoints,      \* the discovered dict: the path recorded for each function, "" for none
    probe_ret,      \* what the call returned: "pending", "None" or "dict"
    \* two runs that have reached the delivery stage, on one Home Assistant instance
    pair,           \* per run: the entry id of its coordinator, its position, the timestamp it read,
                    \* the path it wrote and the owner of the file the device was handed
    files,          \* the output directory: for each path written, the run whose image it holds
    \* consecutive runs on one coordinator
    prev,           \* the run before the current one: the fields it found, what it asked and was answered
    \* __init__.py and services.py: the entries set up and the services of the domain
    loaded,         \* hass.data[DOMAIN]: the entries that have a coordinator, in insertion order
    registered,     \* hass.services: for each service of the domain, the async_register calls
                    \* made for it since it was last removed (0: the service is not there)
    services_setup, \* whether DOMAIN is in hass.data["_services_setup"]
    entry_state,    \* the state Home Assistant keeps for each config entry: "not_loaded" or "loaded"
    dispatch        \* the last service call: the service, its entity_id and image_path, the
                    \* coordinator map it found, and the runs it awaited, in order

run_vars == <<cfg, pc, arg, ble, wake_entity, whistle, http, wake_ret, states, is_home,
              image, exists, source, processed, entity, timestamp, written, idx, calls, uploads, stages, result,
              wake_env>>

radio_vars == <<radio_in, radio_pc, radio_addr, radio_char, client, radio_exc, disconnect, radio_ret,
                gatt, writes, discovered>>

flow_vars == <<flow_in, flow_pc, mac_normalized, errors, entry, attempts, test_timeout>>

geom_vars == <<geom_in, geom_pc, anchor, drawn>>

api_vars == <<api, api_req, api_ret>>

resolver_vars == <<disk, resolver>>

render_vars == <<renders>>

lookup_vars == <<registry, lookup>>

probe_vars == <<probes, probe_resp, endpoints, probe_ret>>

pair_vars == <<pair, files>>

rerun_vars == <<prev>>

svc_vars == <<loaded, registered, services_setup, entry_state, dispatch>>

\* the variables of the components that were added to the first five
more_vars == <<render_vars, lookup_vars, probe_vars, pair_vars, rerun_vars, svc_vars>>

\* the variables of the components that are examined on their own
comp_vars == <<radio_vars, flow_vars, geom_vars, api_vars, resolver_vars, more_vars>>

\* what a step of a ble_wake function leaves alone
radio_rest == <<run_vars, flow_vars, geom_vars, api_vars, resolver_vars, more_vars>>

\* what a step of a configuration flow leaves alone, but for radio_addr
flow_rest == <<run_vars, radio_in, radio_pc, radio_char, client, radio_exc, disconnect, radio_ret,
               gatt, writes, discovered, geom_vars, api_vars, resolver_vars, more_vars>>

\* what a step of the renderer leaves alone
geom_rest == <<run_vars, radio_vars, flow_vars, api_vars, resolver_vars, more_vars>>

\* what a call of a BloominAPI method leaves alone
api_rest == <<run_vars, radio_vars, flow_vars, geom_vars, resolver_vars, more_vars>>

\* what a call of a resolver leaves alone
resolver_rest == <<run_vars, radio_vars, flow_vars, geom_vars, api_vars, more_vars>>

\* the first five components together
first_vars == <<radio_vars, flow_vars, geom_vars, api_vars, resolver_vars>>

\* what an invocation of the renderer leaves alone
render_rest == <<run_vars, first_vars, lookup_vars, probe_vars, pair_vars, rerun_vars, svc_vars>>

\* what a call of _find_bloomin_entity leaves alone
lookup_rest == <<run_vars, first_vars, render_vars, probe_vars, pair_vars, rerun_vars, svc_vars>>

\* what a step of discover_api_endpoints leaves alone
probe_rest == <<run_vars, first_vars, render_vars, lookup_vars, pair_vars, rerun_vars, svc_vars>>

\* what a step of one of the two runs leaves alone
pair_rest == <<run_vars, first_vars, render_vars, lookup_vars, probe_vars, rerun_vars, svc_vars>>

\* what a step of a run leaves alone when the run before it is kept
rerun_rest == <<first_vars, render_vars, lookup_vars, probe_vars, pair_vars, svc_vars>>

\* what a set-up, an unload or a service call leaves alone
svc_rest == <<run_vars, first_vars, render_vars, lookup_vars, probe_vars, pair_vars, rerun_vars>>

vars == <<run_vars, comp_vars>>

wake_vars == <<ble, wake_entity, whistle, http, wake_ret>>
pipe_vars == <<states, is_home, image, exists, source, processed, entity, timestamp, written, idx, calls, uploads>>

-----------------------------------------------------------------------------
(* Bounds of the model *)

\* longest list of configured person entities
MaxPersons == 2
\* millisecond timestamps a run can read are 1..MaxTime
MaxTime == 2
\* invocations of the renderer on one ImageProcessor
MaxRenders == 2

-----------------------------------------------------------------------------
(* Constants of the program *)

PERSON_STATE_HOME == "home"
IMAGE_SOURCE_FOLDER == "folder"
IMAGE_SOURCE_FILE == "file"

PersonIds == {"person.a", "person.b"}
PersonLists == UNION {[1..n -> PersonIds] : n \in 0..MaxPersons}
\* a person's entry in the state registry; "missing" is hass.states.get() = None
PersonStates == {"home", "Home", "not_home", "missing"}

MediaDir == "/media"
EntryId == "e1"
BloominEntity == "media_player.bloomin8"

-----------------------------------------------------------------------------
(* BloominPresenceCoordinator.__init__ *)

\* person_entities: the list, or the legacy single entity when the list is empty
PersonEntitiesOf(list, single) ==
    IF list # <<>> THEN list
    ELSE IF single # "" THEN <<single>> ELSE <<>>

\* entry.data[CONF_BLOOMIN_IP]
bloomin_ip == "192.168.1.50"

Coordinator(use_ble, mac, list, single, src, path) ==
    [ bloomin_ip      |-> bloomin_ip,
      use_ble_wake    |-> use_ble,
      ble_mac_address |-> mac,
      ble_characteristic_uuid |-> "None",
      wake_endpoint   |-> "/api/wake",
      person_entities |-> PersonEntitiesOf(list, single),
      image_source    |-> src,
      media_folder    |-> "bloomin_display",
      image_path      |-> path,
      entry_id        |-> EntryId ]

\* validate_input has not called discover_ble_services yet
NotDiscovered == [service_uuid |-> "unset", characteristic_uuid |-> "unset"]

\* no call of a ble_wake function is under way
RadioIdle ==
    /\ radio_in = [fn |-> "none", mac_address |-> "", characteristic_uuid |-> "None",
                    available |-> FALSE]
    /\ radio_pc = "idle" /\ radio_addr = "" /\ radio_char = "" /\ client = "none"
    /\ radio_exc = "none" /\ disconnect = "uncalled" /\ radio_ret = "pending"
    /\ gatt = <<>> /\ writes = <<>> /\ discovered = NotDiscovered

\* no configuration flow is under way
FlowIdle ==
    /\ flow_in = [flow |-> "none"]
    /\ flow_pc = "idle" /\ mac_normalized = "" /\ errors = "none"
    /\ entry = "none" /\ attempts = <<>> /\ test_timeout = 0

\* no overlay is being made
GeomIdle ==
    /\ geom_in = [style |-> "none"]
    /\ geom_pc = "idle" /\ anchor = <<>> /\ drawn = [style |-> "none"]

\* the BloominAPI object of the coordinator, before any call
ApiIdle ==
    /\ api = [base_url |-> "http://192.168.1.50", upload_endpoint |-> "/api/upload",
               wake_endpoint |-> "/api/wake"]
    /\ api_req = [fn |-> "none"]
    /\ api_ret = "pending"

\* no resolver is being examined
ResolverIdle ==
    /\ disk = [kind |-> "absent"]
    /\ resolver = [fn |-> "none", value |-> "pending"]

\* the renderer has not been invoked
RenderIdle == renders = <<>>

\* no entity lookup is being examined
LookupIdle ==
    /\ registry = [entities |-> <<>>]
    /\ lookup = "pending"

\* no endpoint discovery is under way
ProbeIdle ==
    /\ probes = <<>> /\ probe_resp = [kind |-> "none", status |-> 0]
    /\ endpoints = [upload |-> "", wake |-> "", info |-> ""]
    /\ probe_ret = "pending"

\* no pair of runs is being examined
PairIdle ==
    /\ pair = <<>>
    /\ files = <<>>

\* no run before the current one is kept
NoRun == [kept |-> FALSE]

RerunIdle == prev = NoRun

\* no entry is set up and no service was called
SERVICE_UPDATE_DISPLAY == "update_display"

SERVICE_UPLOAD_IMAGE == "upload_image"

DomainServices == {SERVICE_UPDATE_DISPLAY, SERVICE_UPLOAD_IMAGE}

\* the config entries of the domain: two share a title, and the title of the third
\* is the entry id of the first
DomainEntries ==
    { [entry_id |-> EntryId, title |-> "Hall"],
      [entry_id |-> "e2", title |-> "Hall"],
      [entry_id |-> "e3", title |-> EntryId] }

EntryIds == {e.entry_id : e \in DomainEntries}

NoDispatch ==
    [service |-> "none", entity_id |-> "None", image_path |-> "None", data |-> <<>>, ran |-> <<>>]

\* no entry is set up and no service was called
SvcIdle ==
    /\ loaded = <<>>
    /\ registered = [s \in DomainServices |-> 0]
    /\ services_setup = FALSE
    /\ entry_state = [e \in EntryIds |-> "not_loaded"]
    /\ dispatch = NoDispatch

\* none of the components added to the first five is at work
MoreIdle == RenderIdle /\ LookupIdle /\ ProbeIdle /\ PairIdle /\ RerunIdle /\ SvcIdle

\* wake_device has asked nothing yet
NoWakeEnv ==
    [bleak |-> "unasked", radio |-> "uncalled", services |-> "unread", call |-> "uncalled"]

RunInit ==
    /\ wake_env = NoWakeEnv
    /\ arg = "None"
    /\ ble = "untried" /\ wake_entity = "unset" /\ whistle = "untried"
    /\ http = "untried" /\ wake_ret = "pending"
    /\ states = <<>> /\ is_home = "unset" /\ image = "unset" /\ exists = "unset" /\ source = "unset"
    /\ processed = "unset"
    /\ entity = "unset" /\ timestamp = 0 /\ written = "unset" /\ idx = 1 /\ calls = <<>>
    /\ uploads = 0 /\ stages = <<>>

\* a coordinator on which no run is under way
RunIdle ==
    /\ cfg = Coordinator(TRUE, "aa-bb-cc-dd-ee-ff", <<"person.a">>, "", IMAGE_SOURCE_FOLDER, "")
    /\ pc = "idle"
    /\ result = "idle"
    /\ RunInit

Init ==
    /\ \E use_ble \in BOOLEAN, mac \in {"", "aa-bb-cc-dd-ee-ff"},
          list \in PersonLists, single \in {"", "person.a"},
          src \in {IMAGE_SOURCE_FOLDER, IMAGE_SOURCE_FILE},
          path \in {"", "photo.jpg", "/config/photo.jpg"} :
          /\ (src = IMAGE_SOURCE_FOLDER => path = "")
          /\ (~use_ble => mac # "")
          /\ cfg = Coordinator(use_ble, mac, list, single, src, path)
    /\ pc = "idle"
    /\ result = "idle"
    /\ RunInit
    /\ RadioIdle
    /\ FlowIdle
    /\ GeomIdle
    /\ ApiIdle
    /\ ResolverIdle
    /\ MoreIdle

-----------------------------------------------------------------------------
(* ble_wake.py: wake_device_via_ble *)

\* what the radio stack answers to one call
BleEnvs ==
    [ available : BOOLEAN,
      connect   : {"connected", "not_connected", "BleakError", "TimeoutError", "OSError"},
      write     : {"ok", "BleakError", "Exception"} ]

\* every failure is caught inside and mapped to False
wake_device_via_ble(mac, env) ==
    IF ~env.available THEN "False"
    ELSE IF mac = "" THEN "False"
    ELSE IF env.connect # "connected" THEN "False"
    ELSE IF env.write = "ok" THEN "True"
    ELSE "False"

-----------------------------------------------------------------------------
(* Python's str methods, on the characters that occur in an address *)

LowerCase == "abcdefghijklmnopqrstuvwxyz"
UpperCase == "ABCDEFGHIJKLMNOPQRSTUVWXYZ"

\* the i-th character of s, as a string of length 1
Char(s, i) == SubSeq(s, i, i)

UpperChar(c) ==
    IF \E i \in 1..Len(LowerCase) : Char(LowerCase, i) = c
    THEN Char(UpperCase, CHOOSE i \in 1..Len(LowerCase) : Char(LowerCase, i) = c)
    ELSE c

LowerOf(c) ==
    IF \E i \in 1..Len(UpperCase) : Char(UpperCase, i) = c
    THEN Char(LowerCase, CHOOSE i \in 1..Len(UpperCase) : Char(UpperCase, i) = c)
    ELSE c

\* s.lower()
RECURSIVE StrLower(_)
StrLower(s) ==
    IF s = "" THEN ""
    ELSE LowerOf(Char(s, 1)) \o StrLower(SubSeq(s, 2, Len(s)))

\* s.upper()
RECURSIVE StrUpper(_)
StrUpper(s) ==
    IF s = "" THEN ""
    ELSE UpperChar(Char(s, 1)) \o StrUpper(SubSeq(s, 2, Len(s)))

\* s.replace(old, new) for a one-character old
RECURSIVE StrReplace(_, _, _)
StrReplace(s, old, new) ==
    IF s = "" THEN ""
    ELSE (IF Char(s, 1) = old THEN new ELSE Char(s, 1))
         \o StrReplace(SubSeq(s, 2, Len(s)), old, new)

\* s.split(sep) for a one-character sep: cur is the part being read, acc the parts read
RECURSIVE SplitFrom(_, _, _, _)
SplitFrom(s, sep, cur, acc) ==
    IF s = "" THEN Append(acc, cur)
    ELSE IF Char(s, 1) = sep
         THEN SplitFrom(SubSeq(s, 2, Len(s)), sep, "", Append(acc, cur))
         ELSE SplitFrom(SubSeq(s, 2, Len(s)), sep, cur \o Char(s, 1), acc)

StrSplit(s, sep) == SplitFrom(s, sep, "", <<>>)

\* mutant: the underscore is not taken for a separator
NormalizeMacNoUnderscore(mac_address) == StrReplace(StrUpper(mac_address), "-", ":")

\* mac_address.upper().replace("-", ":").replace("_", ":")
NormalizeMac(mac_address) ==
    StrReplace(StrReplace(StrUpper(mac_address), "-", ":"), "_", ":")

-----------------------------------------------------------------------------
(* ble_wake.py: one call of wake_device_via_ble or discover_ble_services, step by  *)
(* step.  BLEAK_AVAILABLE and BLEAK_RETRY_AVAILABLE are set by the same import, so  *)
(* a call that passes the BLEAK_AVAILABLE guard connects with establish_connection; *)
(* the scan-and-connect branch is not reachable.                                    *)

DEFAULT_BLE_CHARACTERISTIC_UUID == "0000f001-0000-1000-8000-00805f9b34fb"

\* the characteristic_uuid an entry has configured: None, or a characteristic
RadioChars == {"None", "0000abcd-0000-1000-8000-00805f9b34fb"}

\* WAKE_COMMAND = bytes([0x01])
WAKE_COMMAND == <<1>>

\* discover_ble_services returned None
NoneFound == [service_uuid |-> "None", characteristic_uuid |-> "None"]

\* the characteristic_uuid argument of a wake: what the entry has configured, or
\* what validate_input stored from the discovery before it (data.get gives None
\* when the discovery returned None)
CharArguments ==
    RadioChars \cup (IF discovered.characteristic_uuid \in {"unset", "None"} THEN {}
                     ELSE {discovered.characteristic_uuid})

RadioFns == {"wake_device_via_ble", "discover_ble_services"}
RadioMacs == {"", "aa-bb-cc-dd-ee-ff", "AA_BB_CC_DD_EE_FF", "aa:bb:cc:dd:ee:ff"}

\* what each function returns on failure
RadioFail(fn) == IF fn = "wake_device_via_ble" THEN "False" ELSE "None"

\* the guards before the connection, and the normalization of the address
BleCall ==
    /\ radio_pc \in {"idle", "returned"}
    /\ \E fn \in RadioFns, mac \in RadioMacs, char \in CharArguments, available \in BOOLEAN :
         /\ fn = "discover_ble_services" => char = "None"
         /\ discovered' = IF fn = "wake_device_via_ble" THEN discovered
                          ELSE IF ~available \/ mac = "" THEN NoneFound
                          ELSE NotDiscovered
         /\ radio_in' = [fn |-> fn, mac_address |-> mac, characteristic_uuid |-> char,
                         available |-> available]
         /\ IF ~available \/ mac = ""
            THEN /\ radio_pc' = "returned"
                 /\ radio_ret' = RadioFail(fn)
                 /\ radio_addr' = ""
            ELSE /\ radio_pc' = "connect"
                 /\ radio_ret' = "pending"
                 /\ radio_addr' = NormalizeMac(mac)
    /\ radio_char' = "" /\ client' = "none" /\ radio_exc' = "none" /\ disconnect' = "uncalled"
    /\ gatt' = <<>> /\ writes' = <<>>
    /\ UNCHANGED radio_rest

\* establish_connection: a client that is connected, one that is not, or an
\* exception, which the outer handlers turn into the failure value
BleConnect ==
    /\ radio_pc = "connect"
    /\ \E r \in {"connected", "not_connected", "BleakError", "TimeoutError", "OSError"} :
         /\ client' = CASE r = "connected" -> "connected"
                        [] r = "not_connected" -> "disconnected"
                        [] OTHER -> "none"
         /\ radio_pc' = IF r = "connected" THEN "use" ELSE "returned"
         /\ radio_ret' = IF r = "connected" THEN radio_ret ELSE RadioFail(radio_in.fn)
         /\ discovered' = IF r # "connected" /\ radio_in.fn = "discover_ble_services"
                          THEN NoneFound ELSE discovered
    /\ UNCHANGED <<radio_in, radio_addr, radio_char, radio_exc, disconnect>>
    /\ UNCHANGED <<gatt, writes>>
    /\ UNCHANGED radio_rest

\* the device goes out of range while the client is connected
BleDrop ==
    /\ radio_pc \in {"use", "finally"}
    /\ client = "connected"
    /\ client' = "disconnected"
    /\ UNCHANGED <<radio_in, radio_pc, radio_addr, radio_char, radio_exc, disconnect, radio_ret>>
    /\ UNCHANGED <<gatt, writes, discovered>>
    /\ UNCHANGED radio_rest

\* characteristic_uuid or DEFAULT_BLE_CHARACTERISTIC_UUID
TargetCharUuid(characteristic_uuid) ==
    IF characteristic_uuid \in {"None", ""} THEN DEFAULT_BLE_CHARACTERISTIC_UUID
    ELSE characteristic_uuid

\* wake_device_via_ble: the one write_gatt_char(target_char_uuid, WAKE_COMMAND,
\* response=True); both handlers return False
BleWrite ==
    /\ radio_pc = "use"
    /\ radio_in.fn = "wake_device_via_ble"
    /\ radio_char' = TargetCharUuid(radio_in.characteristic_uuid)
    /\ \E w \in {"ok", "BleakError", "Exception"} :
         /\ writes' = Append(writes, [characteristic |-> TargetCharUuid(radio_in.characteristic_uuid),
                                      data |-> WAKE_COMMAND,
                                      response |-> TRUE,
                                      outcome |-> w])
         /\ radio_ret' = IF w = "ok" THEN "True" ELSE "False"
    /\ radio_pc' = "finally"
    /\ UNCHANGED <<radio_in, radio_addr, client, radio_exc, disconnect>>
    /\ UNCHANGED <<gatt, discovered>>
    /\ UNCHANGED radio_rest

\* the GATT table of a device: services in enumeration order, each with its
\* characteristics in enumeration order
MaxServices == 2
MaxChars == 2

\* characteristics a device may expose: the known wake characteristic as the stack
\* reports it (lower or upper case), two other writable ones, one that is only
\* readable and one that takes writes without response only
GattChars ==
    { [uuid |-> "0000f001-0000-1000-8000-00805f9b34fb", properties |-> {"read", "write"}],
      [uuid |-> "0000F001-0000-1000-8000-00805F9B34FB", properties |-> {"write"}],
      [uuid |-> "0000abcd-0000-1000-8000-00805f9b34fb", properties |-> {"write", "notify"}],
      [uuid |-> "0000beef-0000-1000-8000-00805f9b34fb", properties |-> {"write"}],
      [uuid |-> "00002a19-0000-1000-8000-00805f9b34fb", properties |-> {"read", "notify"}],
      [uuid |-> "0000f002-0000-1000-8000-00805f9b34fb", properties |-> {"write-without-response"}] }

\* service.characteristics: up to MaxChars different characteristics
CharLists ==
    { l \in UNION { [1..n -> GattChars] : n \in 0..MaxChars } :
        \A i, j \in 1..Len(l) : i # j => l[i] # l[j] }

\* services: at least one service, up to MaxServices
GattTables == UNION { [1..n -> CharLists] : n \in 1..MaxServices }

\* service.uuid of the s-th service: 0000ff00-..., 0000ff01-..., ...
ServiceUuid(s) ==
    "0000ff0" \o SubSeq("0123456789", s, s) \o "-0000-1000-8000-00805f9b34fb"

\* mutant: the known characteristic is treated like any other writable one
CharStepFirstWritable(service_uuid, char, d) ==
    IF "write" \in char.properties /\ d.characteristic_uuid = "None"
    THEN [d |-> [service_uuid |-> service_uuid, characteristic_uuid |-> char.uuid],
          brk |-> FALSE]
    ELSE [d |-> d, brk |-> FALSE]

\* the body of the inner loop for one characteristic: the pair discovered so far
\* and whether the loop over this service's characteristics is left by break
CharStep(service_uuid, char, d) ==
    IF "write" \in char.properties
    THEN IF StrLower(char.uuid) = "0000f001-0000-1000-8000-00805f9b34fb"
         THEN [d |-> [service_uuid |-> service_uuid, characteristic_uuid |-> char.uuid],
               brk |-> TRUE]
         ELSE IF d.characteristic_uuid = "None"
              THEN [d |-> [service_uuid |-> service_uuid, characteristic_uuid |-> char.uuid],
                    brk |-> FALSE]
              ELSE [d |-> d, brk |-> FALSE]
    ELSE [d |-> d, brk |-> FALSE]

\* for char in service.characteristics, from the i-th on
RECURSIVE WalkChars(_, _, _, _)
WalkChars(service_uuid, chars, i, d) ==
    IF i > Len(chars) THEN d
    ELSE LET step == CharStep(service_uuid, chars[i], d) IN
         IF step.brk THEN step.d
         ELSE WalkChars(service_uuid, chars, i + 1, step.d)

\* for service in services, from the s-th on: the break above leaves the inner
\* loop only, the later services are still walked
RECURSIVE WalkServices(_, _, _)
WalkServices(services, s, d) ==
    IF s > Len(services) THEN d
    ELSE WalkServices(services, s + 1, WalkChars(ServiceUuid(s), services[s], 1, d))

\* discovered_service and discovered_characteristic after both loops
ResolveCharacteristic(services) == WalkServices(services, 1, NoneFound)

\* what the enumeration of discover_ble_services can come to: a wrapper client,
\* an error while the services are fetched, no services, an error while they are
\* walked (not caught inside), or the services walked to the end
DiscoverOutcomes ==
    {"wrapper", "fetch_error", "no_services", "walk_error", "walked"}

BleEnumerate ==
    /\ radio_pc = "use"
    /\ radio_in.fn = "discover_ble_services"
    /\ \E o \in DiscoverOutcomes :
         \E services \in (IF o = "walked" THEN GattTables ELSE {<<>>}) :
           /\ gatt' = services
           /\ discovered' = IF o = "walked" THEN ResolveCharacteristic(services)
                            ELSE NoneFound
           /\ radio_ret' = CASE o = "walked" ->
                                  IF ResolveCharacteristic(services) # NoneFound
                                  THEN "dict" ELSE "None"
                             [] o = "walk_error" -> radio_ret
                             [] OTHER -> "None"
           /\ radio_exc' = IF o = "walk_error" THEN "Exception" ELSE radio_exc
    /\ radio_pc' = "finally"
    /\ UNCHANGED <<radio_in, radio_addr, radio_char, client, disconnect>>
    /\ UNCHANGED writes
    /\ UNCHANGED radio_rest

\* mutant: the finally clause is missing
BleFinallyMissing ==
    /\ radio_pc = "finally"
    /\ radio_ret' = IF radio_exc # "none" THEN RadioFail(radio_in.fn) ELSE radio_ret
    /\ discovered' = IF radio_in.fn = "discover_ble_services" /\ radio_ret' = "None"
                     THEN NoneFound ELSE discovered
    /\ radio_exc' = "none"
    /\ radio_pc' = "returned"
    /\ UNCHANGED <<radio_in, radio_addr, radio_char, client, disconnect>>
    /\ UNCHANGED <<gatt, writes>>
    /\ UNCHANGED radio_rest

\* the finally clause: a client that is still connected is disconnected.  An error
\* raised by disconnect() leaves the clause as an exception, which like one raised
\* by the enumeration reaches the outer handlers: they return the failure value,
\* whatever the value that was about to be returned.  Whether the link is still up
\* after a failed disconnect() is the radio stack's affair.
BleFinally ==
    /\ radio_pc = "finally"
    /\ IF client = "connected"
       THEN \E d \in {"ok", "BleakError"} :
              /\ disconnect' = d
              /\ IF d = "ok"
                 THEN /\ client' = "disconnected"
                      /\ radio_ret' = IF radio_exc # "none" THEN RadioFail(radio_in.fn)
                                      ELSE radio_ret
                 ELSE /\ client' \in {"connected", "disconnected"}
                      /\ radio_ret' = RadioFail(radio_in.fn)
       ELSE /\ radio_ret' = IF radio_exc # "none" THEN RadioFail(radio_in.fn) ELSE radio_ret
            /\ UNCHANGED <<client, disconnect>>
    /\ discovered' = IF radio_in.fn = "discover_ble_services" /\ radio_ret' = "None"
                     THEN NoneFound ELSE discovered
    /\ radio_exc' = "none"
    /\ radio_pc' = "returned"
    /\ UNCHANGED <<radio_in, radio_addr, radio_char>>
    /\ UNCHANGED <<gatt, writes>>
    /\ UNCHANGED radio_rest

RadioNext ==
    \/ BleCall
    \/ BleConnect
    \/ BleDrop
    \/ BleWrite
    \/ BleEnumerate
    \/ BleFinally

-----------------------------------------------------------------------------
(* bloomin_api.py: BloominAPI *)

\* what the device answers to one HTTP request: a status, or the error the request raised
HttpResponses == {"200", "400", "404", "500", "ClientError", "TimeoutError", "Exception"}
HttpErrors == {"ClientError", "TimeoutError", "Exception"}

\* what reading the body of the response as text does: it is read before the status
\* is looked at, and can fail like the request (the connection breaks, the read
\* times out, the bytes cannot be decoded)
BodyReads == {"ok", "ClientError", "TimeoutError", "Exception"}

\* BloominAPI.__init__: an endpoint that is None or empty gives way to the default
BloominAPI(ip_address, upload_endpoint, wake_endpoint) ==
    [ base_url        |-> "http://" \o ip_address,
      upload_endpoint |-> IF upload_endpoint \in {"None", ""} THEN "/api/upload"
                          ELSE upload_endpoint,
      wake_endpoint   |-> IF wake_endpoint \in {"None", ""} THEN "/api/wake"
                          ELSE wake_endpoint ]

\* the body of wake_device and of upload_image after the request was sent: an
\* error of the request or of the reading of the body is caught and gives False,
\* otherwise the status is compared with 200
StatusToBool(resp, body) ==
    IF resp \in HttpErrors THEN "False"
    ELSE IF body # "ok" THEN "False"
    ELSE IF resp = "200" THEN "True" ELSE "False"

ApiWakeDevice(resp, body) == StatusToBool(resp, body)

ApiUploadImage(resp, body) == StatusToBool(resp, body)

\* the endpoints a caller can hand to the constructor
EndpointArgs == {"None", "", "/custom"}

\* BloominAPI.wake_device: a POST to base_url + wake_endpoint
ApiWake ==
    /\ \E resp \in HttpResponses, body \in BodyReads :
         /\ resp \in HttpErrors => body = "ok"
         /\ api_req' = [fn |-> "wake_device", url |-> api.base_url \o api.wake_endpoint,
                        resp |-> resp, body |-> body]
         /\ api_ret' = ApiWakeDevice(resp, body)
    /\ UNCHANGED api
    /\ UNCHANGED api_rest

\* BloominAPI.upload_image: a POST of the image to base_url + upload_endpoint
ApiUpload ==
    /\ \E resp \in HttpResponses, body \in BodyReads :
         /\ resp \in HttpErrors => body = "ok"
         /\ api_req' = [fn |-> "upload_image", url |-> api.base_url \o api.upload_endpoint,
                        resp |-> resp, body |-> body]
         /\ api_ret' = ApiUploadImage(resp, body)
    /\ UNCHANGED api
    /\ UNCHANGED api_rest

ApiNext ==
    \/ ApiWake
    \/ ApiUpload

-----------------------------------------------------------------------------
(* coordinator.py: _find_bloomin_entity *)

\* the entity registry as one lookup sees it: the media_player entities found through
\* the companion config entry (method 1), those of the device family whose entry
\* address matches, all those of the device family, and where the lookup raises:
\* "async_get" when the registry cannot be had, "walk" in the registry walk of
\* method 2; an error inside method 1 is caught there and leads to method 2
Registries ==
    [ via_entry : {<<>>, <<BloominEntity>>},
      matching  : {<<>>, <<BloominEntity>>},
      family    : {<<>>, <<BloominEntity>>, <<BloominEntity, "media_player.eink_frame">>},
      error     : {"no", "async_get", "method1", "walk"} ]

find_bloomin_entity(reg) ==
    IF reg.error = "async_get" THEN "raise"
    ELSE IF reg.error # "method1" /\ reg.via_entry # <<>> THEN reg.via_entry[1]
    ELSE IF reg.error = "walk" THEN "raise"
    ELSE IF reg.matching # <<>> THEN reg.matching[1]
    ELSE IF reg.family # <<>> THEN reg.family[1]
    ELSE "None"

-----------------------------------------------------------------------------
(* coordinator.py: wake_device *)

\* the service registry as wake_device reads it
ServiceRegistries == {"whistle", "no_domain", "no_action", "raise"}
\* what hass.services.async_call answers
CallResults == {"ok", "ValueError", "Exception"}

\* mutant: the companion service is consulted first
WakeEntryCompanionFirst == "wake_lookup"

\* the first channel wake_device turns to
WakeEntry == "wake_ble"

\* mutant: wake_device reports whether a channel succeeded
WakeReturnBool(success) == IF success THEN "True" ELSE "False"

\* wake_device has no return value: every exit is a bare return or the end of the body
WakeReturn(success) == "None"

\* mutant: the return after a successful radio wake is missing
AfterBLENoReturn(success) == "wake_lookup"

\* after the radio attempt: return on success, else go on to the companion service
AfterBLE(success) == IF success = "True" THEN "wake_return" ELSE "wake_lookup"

\* mutant: a failed whistle call starts the chain again
AfterWhistleRetry(r) == IF r = "ok" THEN "wake_return" ELSE "wake_ble"

\* after the whistle call: return when it completed, else go on to the HTTP endpoint
AfterWhistle(r) == IF r = "ok" THEN "wake_return" ELSE "wake_http"

\* process_and_upload_image ends with `val`, having entered the stages `entered`
Finish(entered, val) ==
    /\ result' = val
    /\ pc' = "done"
    /\ stages' = stages \o entered \o <<"Done">>

\* mutant: the handlers that close process_and_upload_image are missing
GotoUncaught(entered, target) ==
    IF target = "except" THEN Finish(entered, "raised")
    ELSE IF target = "return_false" THEN Finish(entered, "False")
    ELSE IF target = "return_true" THEN Finish(entered, "True")
    ELSE /\ pc' = target
         /\ stages' = stages \o entered
         /\ UNCHANGED result

\* control moves to `target`: "return_false" and "return_true" are the return
\* statements of process_and_upload_image, "except" is an exception reaching the
\* handlers that close it, which log and return False
Goto(entered, target) ==
    IF target \in {"return_false", "except"} THEN Finish(entered, "False")
    ELSE IF target = "return_true" THEN Finish(entered, "True")
    ELSE /\ pc' = target
         /\ stages' = stages \o entered
         /\ UNCHANGED result

\* a call of process_and_upload_image on the coordinator: its locals are new
CallBody ==
    /\ pc \in {"idle", "done"}
    /\ \E a \in {"None", "/tmp/shot.jpg"} : arg' = a
    /\ pc' = WakeEntry
    /\ result' = "running"
    /\ stages' = <<"WakeDevice">>
    /\ ble' = "untried" /\ wake_entity' = "unset" /\ whistle' = "untried"
    /\ http' = "untried" /\ wake_ret' = "pending"
    /\ states' = <<>> /\ is_home' = "unset" /\ image' = "unset" /\ exists' = "unset" /\ source' = "unset"
    /\ processed' = "unset"
    /\ entity' = "unset" /\ timestamp' = 0 /\ written' = "unset" /\ idx' = 1 /\ calls' = <<>>
    /\ uploads' = 0
    /\ wake_env' = NoWakeEnv
    /\ UNCHANGED cfg

Call ==
    /\ CallBody
    /\ UNCHANGED comp_vars

\* wake_device returns to process_and_upload_image, which discards what it returned
\* and goes on to read the presence
AfterWake == "presence"

\* one step of wake_device moves to `target`; "wake_return" is a return statement
\* or the end of the body
WakeGoto(target, success) ==
    IF target = "wake_return"
    THEN /\ wake_ret' = WakeReturn(success)
         /\ pc' = AfterWake
    ELSE /\ pc' = target
         /\ UNCHANGED wake_ret

\* how far a call of wake_device_via_ble gets towards the radio: it returns at the
\* BLEAK_AVAILABLE guard, at the address guard, or calls establish_connection, once
\* mutant: the BLEAK_AVAILABLE guard is missing
ble_connection_attempt_unguarded(mac, env) ==
    IF mac = "" THEN "no_address" ELSE "connect"

ble_connection_attempt(mac, env) ==
    IF ~env.available THEN "unavailable"
    ELSE IF mac = "" THEN "no_address"
    ELSE "connect"

\* mutant: a radio wake that failed turns the radio off for the runs to come
FieldsAfterRadioGivesUp(c, success) ==
    IF success = "True" THEN c ELSE [c EXCEPT !.use_ble_wake = FALSE]

\* the coordinator's fields after the radio attempt: wake_device assigns none
FieldsAfterRadio(c, success) == c

WakeBLE ==
    /\ pc = "wake_ble"
    /\ IF cfg.use_ble_wake /\ cfg.ble_mac_address # ""
       THEN \E env \in BleEnvs :
              LET success == wake_device_via_ble(cfg.ble_mac_address, env) IN
              /\ ble' = IF success = "True" THEN "ok" ELSE "failed"
              /\ wake_env' = [wake_env EXCEPT
                                !.bleak = IF env.available THEN "available" ELSE "unavailable",
                                !.radio = ble_connection_attempt(cfg.ble_mac_address, env)]
              /\ cfg' = FieldsAfterRadio(cfg, success)
              /\ WakeGoto(AfterBLE(success), success = "True")
       ELSE /\ ble' = "skipped"
            /\ UNCHANGED <<wake_env, cfg>>
            /\ WakeGoto("wake_lookup", FALSE)
    /\ UNCHANGED <<arg, wake_entity, whistle, http, stages, result>>
    /\ UNCHANGED pipe_vars
    /\ UNCHANGED comp_vars

\* mutant: the whistle action is not looked for in the domain
AfterCompanionLookupAnyAction(found, svc) ==
    IF found = "raise" THEN "except"
    ELSE IF found = "None" THEN "wake_http"
    ELSE IF svc = "raise" THEN "except"
    ELSE IF svc \in {"whistle", "no_action"} THEN "wake_whistle"
    ELSE "wake_http"

\* the entity lookup and the check of the service registry, neither inside a try
AfterCompanionLookup(found, svc) ==
    IF found = "raise" THEN "except"
    ELSE IF found = "None" THEN "wake_http"
    ELSE IF svc = "raise" THEN "except"
    ELSE IF svc = "whistle" THEN "wake_whistle"
    ELSE "wake_http"

WakeCompanion ==
    /\ pc = "wake_lookup"
    /\ \E reg \in Registries, svc \in ServiceRegistries :
         LET found  == find_bloomin_entity(reg)
             target == AfterCompanionLookup(found, svc)
         IN  /\ wake_entity' = IF found = "raise" THEN wake_entity ELSE found
             /\ whistle' = IF target = "wake_http" THEN "skipped" ELSE whistle
             /\ wake_ret' = IF target = "except" THEN "raised" ELSE wake_ret
             /\ wake_env' = [wake_env EXCEPT
                               !.services = IF found \in {"raise", "None"} THEN "unread" ELSE svc]
             /\ Goto(<<>>, target)
    /\ UNCHANGED <<cfg, arg, ble, http>>
    /\ UNCHANGED pipe_vars
    /\ UNCHANGED comp_vars

WakeWhistle ==
    /\ pc = "wake_whistle"
    /\ \E r \in CallResults :
         /\ whistle' = IF r = "ok" THEN "ok" ELSE "failed"
         /\ wake_env' = [wake_env EXCEPT !.call = r]
         /\ WakeGoto(AfterWhistle(r), r = "ok")
    /\ UNCHANGED <<cfg, arg, ble, wake_entity, http, stages, result>>
    /\ UNCHANGED pipe_vars
    /\ UNCHANGED comp_vars

WakeHTTP ==
    /\ pc = "wake_http"
    /\ \E resp \in HttpResponses, body \in BodyReads :
         LET success == ApiWakeDevice(resp, body) IN
         /\ http' = IF success = "True" THEN "ok" ELSE "failed"
         /\ WakeGoto("wake_return", success = "True")
    /\ UNCHANGED <<cfg, arg, ble, wake_entity, whistle, stages, result, wake_env>>
    /\ UNCHANGED pipe_vars
    /\ UNCHANGED comp_vars

-----------------------------------------------------------------------------
(* coordinator.py: process_and_upload_image, presence *)

Range(f) == {f[i] : i \in DOMAIN f}

\* person_is_home: the state is compared with PERSON_STATE_HOME as it stands
PersonIsHome(current_state) == current_state = PERSON_STATE_HOME

\* mutant: the last person read decides
MarkHomeLastWins(home, person_is_home) == person_is_home

\* if person_is_home: is_home = True
MarkHome(home, person_is_home) == IF person_is_home THEN TRUE ELSE home

\* the loop over person_entities: an entity missing from the registry is passed
\* over, any other is recorded and sets is_home when its state is "home"
RECURSIVE PresenceLoop(_, _, _)
PresenceLoop(persons, st, acc) ==
    IF persons = <<>> THEN acc
    ELSE LET p == Head(persons) IN
         IF st[p] = "missing" THEN PresenceLoop(Tail(persons), st, acc)
         ELSE PresenceLoop(Tail(persons), st,
                [ is_home       |-> MarkHome(acc.is_home, PersonIsHome(st[p])),
                  person_states |-> Append(acc.person_states, <<p, st[p]>>) ])

\* mutant: the run goes from the presence straight to the renderer
AfterPresenceSkipResolve(persons, person_states) ==
    IF persons = <<>> THEN "return_false"
    ELSE IF person_states = <<>> THEN "return_false"
    ELSE "render"

\* mutant: the check that some person was found is missing
AfterPresenceUnchecked(persons, person_states) ==
    IF persons = <<>> THEN "return_false"
    ELSE "resolve"

\* where the run goes after the presence loop
AfterPresence(persons, person_states) ==
    IF persons = <<>> THEN "return_false"
    ELSE IF person_states = <<>> THEN "return_false"
    ELSE "resolve"

PresenceBody ==
    /\ pc = "presence"
    /\ \E st \in [Range(cfg.person_entities) -> PersonStates] :
         LET r == PresenceLoop(cfg.person_entities, st,
                               [is_home |-> FALSE, person_states |-> <<>>]) IN
         /\ states' = IF cfg.person_entities = <<>> THEN states ELSE st
         /\ is_home' = IF cfg.person_entities = <<>> THEN is_home
                       ELSE IF r.is_home THEN "True" ELSE "False"
         /\ Goto(<<>>, AfterPresence(cfg.person_entities, r.person_states))
    /\ UNCHANGED <<cfg, arg, image, exists, source, processed, entity, timestamp, written,
                   idx, calls, uploads>>
    /\ UNCHANGED wake_vars
    /\ UNCHANGED comp_vars

\* what the wake was asked and answered is of no use to the rest of the run
Presence ==
    /\ PresenceBody
    /\ wake_env' = NoWakeEnv

-----------------------------------------------------------------------------
(* coordinator.py: get_image_path, get_latest_image, get_media_folder_path *)

IsAbsolute(path) == path # "" /\ Head(path) = "/"

\* pathlib's a / b
JoinPath(a, b) == IF IsAbsolute(b) THEN b ELSE a \o "/" \o b

FileKinds == {"absent", "file", "dir"}

\* str.lower() on the suffixes that occur
Lower(suffix) ==
    CASE suffix = ".JPG" -> ".jpg"
      [] suffix = ".Png" -> ".png"
      [] OTHER -> suffix

ImageExtensions == {".jpg", ".jpeg", ".png", ".bmp"}

\* a directory entry: its stem, its suffix, and whether it is a regular file
DirEntry(stem, suffix, is_file) == [stem |-> stem, suffix |-> suffix, is_file |-> is_file]

Listings ==
    { <<>>,
      <<DirEntry("notes", ".txt", TRUE)>>,
      <<DirEntry("album", ".jpg", FALSE), DirEntry("readme", "", TRUE)>>,
      <<DirEntry("a", ".JPG", TRUE)>>,
      <<DirEntry("notes", ".txt", TRUE), DirEntry("b", ".Png", TRUE), DirEntry("c", ".bmp", TRUE)>> }

\* the media folder as one run finds it
\* kind "absent" is a folder that get_media_folder_path creates, "absent_mkdir_fails"
\* one it cannot create, "vanished" one that is gone again at the existence check
FolderEnvs ==
    [ kind    : {"dir", "file", "absent", "absent_mkdir_fails", "vanished"},
      listing : Listings,
      iterdir : {"ok", "PermissionError", "OSError"} ]

IsImage(e) == e.is_file /\ Lower(e.suffix) \in ImageExtensions

\* the values get_latest_image can produce: "raise" when get_media_folder_path
\* raises, "None", or any one of the eligible files (random.choice)
get_latest_image(folder, env) ==
    LET folder_path == JoinPath(MediaDir, folder)
        listing     == IF env.kind = "dir" THEN env.listing ELSE <<>>
        image_files == SelectSeq(listing, IsImage)
    IN  IF env.kind = "absent_mkdir_fails" THEN {"raise"}
        ELSE IF env.kind = "vanished" THEN {"None"}
        ELSE IF env.kind = "file" THEN {"None"}
        ELSE IF env.iterdir # "ok" THEN {"None"}
        ELSE IF image_files = <<>> THEN {"None"}
        ELSE { JoinPath(folder_path, image_files[i].stem \o image_files[i].suffix) :
                 i \in DOMAIN image_files }

\* mutant: a path that exists is returned whatever it is
get_image_path_any_kind(c, kind, env) ==
    IF c.image_source = IMAGE_SOURCE_FILE
    THEN IF c.image_path = "" THEN {"None"}
         ELSE LET image_path == JoinPath(MediaDir, c.image_path) IN
              IF kind = "absent" THEN {"None"}
              ELSE {image_path}
    ELSE get_latest_image(c.media_folder, env)

\* the values get_image_path can produce; kind is what the file system holds at
\* the configured path
get_image_path(c, kind, env) ==
    IF c.image_source = IMAGE_SOURCE_FILE
    THEN IF c.image_path = "" THEN {"None"}
         ELSE LET image_path == JoinPath(MediaDir, c.image_path) IN
              IF kind = "absent" THEN {"None"}
              ELSE IF kind # "file" THEN {"None"}
              ELSE {image_path}
    ELSE get_latest_image(c.media_folder, env)

\* mutant: the two checks of the resolved path are missing
AfterResolveUnchecked(path, ex) == IF path = "raise" THEN "except" ELSE "render"

\* where the run goes once the image path is known: no path, or a path that
\* does not exist, ends the run
AfterResolve(path, ex) ==
    IF path = "raise" THEN "except"
    ELSE IF path = "None" THEN "return_false"
    ELSE IF ~ex THEN "return_false"
    ELSE "render"

Resolve ==
    /\ pc = "resolve"
    /\ \E kind \in FileKinds, env \in FolderEnvs, ex \in BOOLEAN :
         \E path \in (IF arg = "None" THEN get_image_path(cfg, kind, env) ELSE {arg}) :
            /\ image' = IF path = "raise" THEN image ELSE path
            /\ exists' = IF path \in {"raise", "None"} THEN exists
                         ELSE IF ex THEN "True" ELSE "False"
            /\ Goto(<<"ResolveImage">>, AfterResolve(path, ex))
    /\ UNCHANGED <<cfg, arg, states, is_home, source, processed, entity, timestamp,
                   written, idx, calls, uploads>>
    /\ UNCHANGED wake_vars
    /\ UNCHANGED wake_env
    /\ UNCHANGED comp_vars

-----------------------------------------------------------------------------
(* image_processor.py: add_presence_overlay *)

SourceStates == {"ok", "unreadable", "corrupt"}

\* mutant: the handlers log the error and hand back a buffer
add_presence_overlay_swallow(src) == "bytes"

\* the encoded bytes, or "raise": both handlers log and re-raise
add_presence_overlay(src) == IF src = "ok" THEN "bytes" ELSE "raise"

-----------------------------------------------------------------------------
(* coordinator.py: process_and_upload_image, render and delivery *)

AfterRender(p) == IF p = "raise" THEN "except" ELSE "deliver_lookup"

Render ==
    /\ pc = "render"
    /\ \E src \in SourceStates :
         LET p == add_presence_overlay(src) IN
         /\ source' = src
         /\ processed' = IF p = "raise" THEN "raised" ELSE p
         /\ Goto(<<"Render">>, AfterRender(p))
    /\ UNCHANGED <<cfg, arg, states, is_home, image, exists, entity, timestamp, written,
                   idx, calls, uploads>>
    /\ UNCHANGED wake_vars
    /\ UNCHANGED wake_env
    /\ UNCHANGED comp_vars

\* without a companion entity the run returns False
AfterDeliverLookup(found) ==
    IF found = "raise" THEN "except"
    ELSE IF found = "None" THEN "return_false"
    ELSE "write"

DeliverLookup ==
    /\ pc = "deliver_lookup"
    /\ \E reg \in Registries :
         LET found == find_bloomin_entity(reg) IN
         /\ entity' = IF found = "raise" THEN entity ELSE found
         /\ Goto(<<"Deliver">>, AfterDeliverLookup(found))
    /\ UNCHANGED <<cfg, arg, states, is_home, image, exists, source, processed, timestamp,
                   written, idx, calls, uploads>>
    /\ UNCHANGED wake_vars
    /\ UNCHANGED wake_env
    /\ UNCHANGED comp_vars

\* mutant: the file name carries the timestamp alone
ImageFilenameByTime(entry_id, ts) ==
    "presence_" \o ToString(ts) \o ".jpg"

\* presence_<entry id>_<millisecond timestamp>.jpg
ImageFilename(entry_id, ts) ==
    "presence_" \o entry_id \o "_" \o ToString(ts) \o ".jpg"

OutputDir(local_media_dir) == JoinPath(local_media_dir, "bloomin_presence")

OutputPath(local_media_dir, image_filename) ==
    JoinPath(OutputDir(local_media_dir), image_filename)

\* what creating the directory and writing the file can do
WriteResults == {"ok", "mkdir_OSError", "write_OSError", "not_created"}

\* mutant: the file is not looked for after the write
AfterWriteUnverified(w) ==
    IF w = "mkdir_OSError" THEN "except"
    ELSE IF w = "write_OSError" THEN "return_false"
    ELSE "play_media"

\* where the run goes after the directory and the file: an error of mkdir reaches
\* the outer handlers, an error of the write or a file that does not exist
\* afterwards returns False, and only a file that exists goes on to the calls
AfterWrite(w) ==
    IF w = "mkdir_OSError" THEN "except"
    ELSE IF w = "write_OSError" THEN "return_false"
    ELSE IF w = "not_created" THEN "return_false"
    ELSE "play_media"

WriteFile ==
    /\ pc = "write"
    /\ \E ts \in 1..MaxTime, w \in WriteResults :
         /\ timestamp' = IF w = "mkdir_OSError" THEN timestamp ELSE ts
         /\ written' = IF w = "ok" THEN "ok"
                       ELSE IF w = "not_created" THEN "missing"
                       ELSE IF w = "write_OSError" THEN "failed"
                       ELSE written
         /\ Goto(<<>>, AfterWrite(w))
    /\ UNCHANGED <<cfg, arg, states, is_home, image, exists, source, processed, entity,
                   idx, calls, uploads>>
    /\ UNCHANGED wake_vars
    /\ UNCHANGED wake_env
    /\ UNCHANGED comp_vars

\* pathlib's path.relative_to(base) as a posix string, "ValueError" when base is
\* no ancestor of path
RelativeTo(path, base) ==
    IF Len(path) > Len(base) + 1 /\ SubSeq(path, 1, Len(base) + 1) = base \o "/"
    THEN SubSeq(path, Len(base) + 2, Len(path))
    ELSE "ValueError"

media_content_id_variants(local_media_dir, image_filename) ==
    LET rel == RelativeTo(OutputPath(local_media_dir, image_filename), local_media_dir)
        relative_path == IF rel = "ValueError"
                         THEN "bloomin_presence" \o "/" \o image_filename
                         ELSE rel
    IN  << "/media/local/" \o relative_path,
           "media://local/" \o relative_path,
           "/local/" \o relative_path,
           "/media/local/bloomin_presence/" \o image_filename,
           "media://local/bloomin_presence/" \o image_filename >>

\* the variants of the current run
Variants == media_content_id_variants(MediaDir, ImageFilename(cfg.entry_id, timestamp))

\* mutant: a rejected variant skips the one after it
NextVariantSkip(i) == i + 2

\* the loop over the variants: the first accepted call returns True, a rejected
\* one moves to the next variant, and the end of the list returns False
NextVariant(i) == i + 1

\* mutant: the end of the list is taken for a delivery
AfterPlayMediaOptimistic(r, i, n) ==
    IF r = "ok" THEN "return_true"
    ELSE IF NextVariant(i) > n THEN "return_true"
    ELSE "play_media"

AfterPlayMedia(r, i, n) ==
    IF r = "ok" THEN "return_true"
    ELSE IF NextVariant(i) > n THEN "return_false"
    ELSE "play_media"

PlayMedia ==
    /\ pc = "play_media"
    /\ \E r \in CallResults :
         /\ calls' = Append(calls, [id |-> Variants[idx], accepted |-> (r = "ok")])
         /\ idx' = IF r = "ok" THEN idx ELSE NextVariant(idx)
         /\ Goto(<<>>, AfterPlayMedia(r, idx, Len(Variants)))
    /\ UNCHANGED <<cfg, arg, states, is_home, image, exists, source, processed, entity,
                   timestamp, written, uploads>>
    /\ UNCHANGED wake_vars
    /\ UNCHANGED wake_env
    /\ UNCHANGED comp_vars

Next ==
    \/ Call
    \/ WakeBLE
    \/ WakeCompanion
    \/ WakeWhistle
    \/ WakeHTTP
    \/ Presence
    \/ Resolve
    \/ Render
    \/ DeliverLookup
    \/ WriteFile
    \/ PlayMedia

Spec == Init /\ [][Next]_vars

\* a step of the run under way: the operation it awaits has returned or failed
Step ==
    \/ WakeBLE
    \/ WakeCompanion
    \/ WakeWhistle
    \/ WakeHTTP
    \/ Presence
    \/ Resolve
    \/ Render
    \/ DeliverLookup
    \/ WriteFile
    \/ PlayMedia

\* the same runs, with every awaited operation returning or failing in the end:
\* the radio, the service calls and the HTTP request each have their timeout, and
\* the file operations run in a worker thread that hands back to the event loop
LiveSpec == Init /\ [][Next]_vars /\ WF_vars(Step)

-----------------------------------------------------------------------------
(* coordinator.py: one run of process_and_upload_image after the other on the   *)
(* same coordinator.  No person entity is configured, so a run is its wake chain *)
(* and the return at the person check; what the chain asked and was answered is  *)
(* kept to the end of the run, and the run before is kept beside it.             *)

\* the fields a run found, what it asked and was answered, and what it returned
RunRecord ==
    [ kept     |-> TRUE,
      cfg      |-> cfg,
      arg      |-> arg,
      env      |-> wake_env,
      entity   |-> wake_entity,
      ble      |-> ble,
      whistle  |-> whistle,
      http     |-> http,
      wake_ret |-> wake_ret,
      result   |-> result ]

\* the next call: the run that has just ended becomes the run before
RerunCall ==
    /\ CallBody
    /\ prev' = IF pc = "done" THEN RunRecord ELSE prev
    /\ UNCHANGED rerun_rest

\* the person check, with the answers of the wake kept
RerunPresence ==
    /\ PresenceBody
    /\ UNCHANGED wake_env

RerunNext ==
    \/ RerunCall
    \/ WakeBLE
    \/ WakeCompanion
    \/ WakeWhistle
    \/ WakeHTTP
    \/ RerunPresence

RerunInit ==
    /\ \E use_ble \in BOOLEAN, mac \in {"", "aa-bb-cc-dd-ee-ff"} :
          /\ (~use_ble => mac # "")
          /\ cfg = Coordinator(use_ble, mac, <<>>, "", IMAGE_SOURCE_FOLDER, "")
    /\ pc = "idle"
    /\ result = "idle"
    /\ RunInit
    /\ RadioIdle /\ FlowIdle /\ GeomIdle /\ ApiIdle /\ ResolverIdle
    /\ MoreIdle

RerunSpec == RerunInit /\ [][RerunNext]_vars

\* calls of the ble_wake functions, on their own
RadioInit == RunIdle /\ RadioIdle /\ FlowIdle /\ GeomIdle /\ ApiIdle /\ ResolverIdle /\ MoreIdle

RadioSpec == RadioInit /\ [][RadioNext]_vars

-----------------------------------------------------------------------------
(* config_flow.py: validate_input, async_step_user; options_flow.py: async_step_init *)

Separators == {":", "-", "_"}

\* six groups of two hexadecimal digits in three spellings: lower case, upper
\* case, and mixed
GroupSpellings ==
    << <<"ab", "cd", "ef", "01", "9a", "f6">>,
       <<"AB", "CD", "EF", "01", "9A", "F6">>,
       <<"aB", "Cd", "eF", "01", "9A", "f6">> >>

\* the groups g written with the separators seps between them
RECURSIVE JoinGroups(_, _)
JoinGroups(g, seps) ==
    IF Len(g) = 1 THEN g[1]
    ELSE g[1] \o seps[1] \o JoinGroups(Tail(g), Tail(seps))

\* addresses of six groups of two hexadecimal digits, with every mix of separators
WellFormedMacs ==
    { JoinGroups(GroupSpellings[k], seps) :
        k \in {1, 2}, seps \in [1..5 -> Separators] }
    \cup { JoinGroups(GroupSpellings[3], seps) : seps \in [1..5 -> Separators] }
    \cup { "aa-bb-cc-dd-ee-ff", "AA_BB_CC_DD_EE_FF", "aa:bb:cc:dd:ee:ff" }

\* addresses that are not of that form: empty, too few or too many groups, a
\* character that is no hexadecimal digit, groups of the wrong length, no or
\* another separator, surrounding blanks
MalformedMacs ==
    { "", "aa:bb:cc:dd:ee", "aa:bb:cc:dd:ee:ff:00", "aa:bb:cc:dd:ee:fg",
      "aabbccddeeff", "aa:bb:cc:dd:ee:f", "aa::bb:cc:dd:ee", "aaa:b:cc:dd:ee:ff",
      "aa.bb.cc.dd.ee.ff", " aa:bb:cc:dd:ee:ff", "aa:bb:cc:dd:ee:ff:", "-" }

HexDigits == {Char("0123456789ABCDEF", i) : i \in 1..16}

\* mutant: the number of groups is not checked
MacFormatOkAnyCount(mac_norm) ==
    LET parts == StrSplit(mac_norm, ":") IN
    \A i \in DOMAIN parts :
       /\ Len(parts[i]) = 2
       /\ \A k \in 1..Len(parts[i]) : Char(parts[i], k) \in HexDigits

\* len(parts) == 6 and every part has two characters out of 0123456789ABCDEF
MacFormatOk(mac_norm) ==
    LET parts == StrSplit(mac_norm, ":") IN
    /\ Len(parts) = 6
    /\ \A i \in DOMAIN parts :
          /\ Len(parts[i]) = 2
          /\ \A k \in 1..Len(parts[i]) : Char(parts[i], k) \in HexDigits

\* the check of the radio address, in both flows: "none" or the error
ValidateMac(data) ==
    IF ~data.use_ble_wake THEN "none"
    ELSE IF data.ble_mac_address = "" THEN "ble_mac_address_required"
    ELSE IF ~MacFormatOk(NormalizeMac(data.ble_mac_address)) THEN "invalid_ble_mac_address"
    ELSE "none"

\* the check of the image source, in both flows: "none" or the error; kind is
\* what the disk holds at the configured path
ValidateImageSource(data, kind) ==
    IF data.image_source = IMAGE_SOURCE_FOLDER
    THEN IF data.media_folder = "" THEN "media_folder_required" ELSE "none"
    ELSE IF data.image_path = "" THEN "image_path_required"
    ELSE IF kind = "absent" THEN "image_path_not_found"
    ELSE IF kind # "file" THEN "image_path_not_file"
    ELSE "none"

\* validate_input up to the wake test: the first failed check raises ValueError
ValidateInput(data, person_found, kind) ==
    IF ~person_found THEN "person_entity_not_found"
    ELSE IF ValidateImageSource(data, kind) # "none" THEN ValidateImageSource(data, kind)
    ELSE ValidateMac(data)

\* async_step_init: every failed check writes errors["base"], the later over the earlier
OptionsErrors(data, kind) ==
    IF ValidateMac(data) # "none" THEN ValidateMac(data)
    ELSE ValidateImageSource(data, kind)

\* what a user can submit, with what the registry and the disk hold
FlowInputs ==
    { [ flow          |-> f,
        use_ble_wake  |-> use_ble,
        ble_mac_address |-> mac,
        image_source  |-> img.image_source,
        media_folder  |-> img.media_folder,
        image_path    |-> img.image_path,
        kind          |-> img.kind,
        person_found  |-> person ] :
        f \in {"config", "options"}, use_ble \in BOOLEAN,
        mac \in WellFormedMacs \cup MalformedMacs,
        img \in { [image_source |-> IMAGE_SOURCE_FOLDER, media_folder |-> "bloomin_display",
                   image_path |-> "", kind |-> "absent"],
                  [image_source |-> IMAGE_SOURCE_FILE, media_folder |-> "bloomin_display",
                   image_path |-> "", kind |-> "absent"],
                  [image_source |-> IMAGE_SOURCE_FILE, media_folder |-> "bloomin_display",
                   image_path |-> "photo.jpg", kind |-> "dir"],
                  [image_source |-> IMAGE_SOURCE_FILE, media_folder |-> "bloomin_display",
                   image_path |-> "photo.jpg", kind |-> "file"] },
        person \in BOOLEAN }

\* the flow ends: validate_input returned, async_create_entry is called
FlowCreateEntry ==
    /\ entry' = "created"
    /\ flow_pc' = "done"

\* validate_input raises on the first failed check, before any wake channel
AfterValidate(err) == IF err = "none" THEN "test_ble" ELSE "form"

\* async_step_user with a user_input, up to the first await of validate_input
ConfigSubmit ==
    /\ flow_pc = "idle"
    /\ flow_in.flow = "config"
    /\ LET err == ValidateInput(flow_in, flow_in.person_found, flow_in.kind) IN
       /\ mac_normalized' =
            IF /\ flow_in.person_found
               /\ ValidateImageSource(flow_in, flow_in.kind) = "none"
               /\ flow_in.use_ble_wake /\ flow_in.ble_mac_address # ""
            THEN NormalizeMac(flow_in.ble_mac_address)
            ELSE mac_normalized
       /\ errors' = err
       /\ flow_pc' = AfterValidate(err)
    /\ UNCHANGED <<flow_in, entry, attempts, test_timeout, radio_addr>>
    /\ UNCHANGED flow_rest

\* the timeout of discover_ble_services and wake_device_via_ble when the caller
\* names none
DEFAULT_BLE_TIMEOUT == 10

\* the timeout validate_input hands to both
SETUP_BLE_TIMEOUT == 5

\* the matching entities of the device family the wake test can come across
MaxCompanions == 2

\* one channel of the wake test, as attempts keeps it
Attempt(channel, wake_success) == [channel |-> channel, success |-> wake_success]

\* mutant: the channels that follow are tested whatever the channel before gave
AfterChannelGoesOn(wake_success, following) == following

\* `if not wake_success:` in front of every channel after the first: once a
\* channel has woken the device the rest is passed over and validate_input returns
AfterChannel(wake_success, following) ==
    IF wake_success = "True" THEN "done" ELSE following

\* async_step_user after validate_input: it returned, the entry is created
EntryAfter(stage) == IF stage = "done" THEN "created" ELSE entry

\* the wake test, radio: discover_ble_services, then wake_device_via_ble, both with
\* the timeout of the wake test; an exception is caught and logged
TestBLE ==
    /\ flow_pc = "test_ble"
    /\ IF flow_in.use_ble_wake /\ flow_in.ble_mac_address # ""
       THEN \E env \in BleEnvs :
              LET wake_success == wake_device_via_ble(flow_in.ble_mac_address, env)
                  stage == AfterChannel(wake_success, "test_whistle") IN
              /\ attempts' = Append(attempts, Attempt("BLE", wake_success))
              /\ test_timeout' = SETUP_BLE_TIMEOUT
              /\ radio_addr' = IF env.available THEN NormalizeMac(flow_in.ble_mac_address)
                               ELSE radio_addr
              /\ flow_pc' = stage
              /\ entry' = EntryAfter(stage)
       ELSE /\ flow_pc' = "test_whistle"
            /\ UNCHANGED <<attempts, test_timeout, radio_addr, entry>>
    /\ UNCHANGED <<flow_in, mac_normalized, errors>>
    /\ UNCHANGED flow_rest

\* the wake test, companion service: the whistle call on every entity of the
\* device family whose entry has the device's address, one after the other until
\* a call is accepted; every error is caught, that of a call inside the loop
TestWhistle ==
    /\ flow_pc = "test_whistle"
    /\ \E n \in 0..MaxCompanions : \E results \in [1..n -> CallResults] :
         LET accepted == {i \in 1..n : results[i] = "ok"}
             made == IF accepted = {} THEN n
                      ELSE CHOOSE i \in accepted : \A k \in accepted : i <= k
             wake_success == IF accepted = {} THEN "False" ELSE "True"
             stage == AfterChannel(wake_success, "test_http")
         IN  /\ attempts' = attempts \o
                  [i \in 1..made |->
                      Attempt("eink_display.whistle",
                              IF results[i] = "ok" THEN "True" ELSE "False")]
             /\ flow_pc' = stage
             /\ entry' = EntryAfter(stage)
    /\ UNCHANGED <<flow_in, mac_normalized, errors, test_timeout, radio_addr>>
    /\ UNCHANGED flow_rest

\* mutant: a wake test that woke nothing shows the form again
AfterWakeTestBlocks(wake_success) ==
    IF wake_success = "True" THEN "done" ELSE "form"

\* the end of the wake test: a failure is logged as a warning and validate_input
\* returns the title all the same
AfterWakeTest(wake_success) == "done"

\* the wake test, HTTP: endpoint discovery, then BloominAPI.wake_device; every
\* error is caught, and whatever it comes to validate_input returns
TestHTTP ==
    /\ flow_pc = "test_http"
    /\ \E resp \in HttpResponses, body \in BodyReads :
         LET wake_success == ApiWakeDevice(resp, body)
             stage == AfterWakeTest(wake_success) IN
         /\ resp \in HttpErrors => body = "ok"
         /\ attempts' = Append(attempts, Attempt("HTTP API", wake_success))
         /\ flow_pc' = stage
         /\ entry' = EntryAfter(stage)
    /\ UNCHANGED <<flow_in, mac_normalized, errors, test_timeout, radio_addr>>
    /\ UNCHANGED flow_rest

\* async_step_init with a user_input
OptionsSubmit ==
    /\ flow_pc = "idle"
    /\ flow_in.flow = "options"
    /\ LET err == OptionsErrors(flow_in, flow_in.kind) IN
       /\ mac_normalized' = IF flow_in.use_ble_wake /\ flow_in.ble_mac_address # ""
                            THEN NormalizeMac(flow_in.ble_mac_address)
                            ELSE mac_normalized
       /\ errors' = err
       /\ IF err = "none"
          THEN FlowCreateEntry
          ELSE flow_pc' = "form" /\ UNCHANGED entry
    /\ UNCHANGED <<flow_in, attempts, test_timeout, radio_addr>>
    /\ UNCHANGED flow_rest

FlowNext ==
    \/ ConfigSubmit
    \/ TestBLE
    \/ TestWhistle
    \/ TestHTTP
    \/ OptionsSubmit

\* one submission to either flow, on its own
FlowInit ==
    /\ RunIdle
    /\ RadioIdle
    /\ GeomIdle
    /\ ApiIdle
    /\ ResolverIdle
    /\ MoreIdle
    /\ flow_in \in FlowInputs
    /\ flow_pc = "idle" /\ mac_normalized = "" /\ errors = "none"
    /\ entry = "none" /\ attempts = <<>> /\ test_timeout = 0

FlowSpec == FlowInit /\ [][FlowNext]_vars

\* a step of the wake test under way: the call it awaits has returned or failed
WakeTestStep ==
    \/ TestBLE
    \/ TestWhistle
    \/ TestHTTP

\* the config flow alone, for a few addresses
SetupNext ==
    \/ ConfigSubmit
    \/ TestBLE
    \/ TestWhistle
    \/ TestHTTP

SetupInit ==
    /\ FlowInit
    /\ flow_in.flow = "config"
    /\ flow_in.ble_mac_address \in {"", "aa-bb-cc-dd-ee-ff", "aa:bb:cc:dd:ee:fg"}

\* submissions to the config flow, with every awaited call of the wake test
\* returning or failing in the end: the radio calls have their timeout, the
\* service call and the HTTP requests theirs
FlowLiveSpec == SetupInit /\ [][SetupNext]_vars /\ WF_vars(WakeTestStep)

-----------------------------------------------------------------------------
(* image_processor.py: _create_overlay, _calculate_position, _draw_badge,       *)
(* _draw_text, _draw_icon                                                       *)

OVERLAY_POSITION_BOTTOM_RIGHT == "bottom_right"
OVERLAY_POSITION_BOTTOM_LEFT == "bottom_left"
OVERLAY_POSITION_TOP_RIGHT == "top_right"
OVERLAY_POSITION_TOP_LEFT == "top_left"
OVERLAY_STYLE_BADGE == "badge"
OVERLAY_STYLE_TEXT == "text"
OVERLAY_STYLE_ICON == "icon"

\* the sizes of the source image, and the values of the overlay options, that
\* are examined; the options flow allows 10..200 for the badge and the icon size,
\* 8..72 for the font size and 0..100 for the margin
ImageSizes == {<<800, 600>>, <<100, 100>>, <<120, 90>>}
BadgeSizes == {20, 40}
IconSizes == {32, 60}
FontSizes == {16, 30}
Margins == {0, 15}
Positions == {OVERLAY_POSITION_BOTTOM_RIGHT, OVERLAY_POSITION_BOTTOM_LEFT,
              OVERLAY_POSITION_TOP_RIGHT, OVERLAY_POSITION_TOP_LEFT, "center"}
Styles == {OVERLAY_STYLE_BADGE, OVERLAY_STYLE_TEXT, OVERLAY_STYLE_ICON, "plain"}
\* the width and height draw.textbbox gives for the text
TextSizes == {<<12, 9>>, <<70, 18>>}

\* mutant: the margin is left out at the bottom and at the right
calculate_position_no_margin(width, height, position, badge_size, margin) ==
    CASE position = "bottom_right" -> <<width - badge_size, height - badge_size>>
      [] position = "bottom_left" -> <<margin, height - badge_size>>
      [] position = "top_right" -> <<width - badge_size, margin>>
      [] position = "top_left" -> <<margin, margin>>
      [] OTHER -> <<width - badge_size, height - badge_size>>

\* _calculate_position; a position it does not know is taken for bottom_right
calculate_position(width, height, position, badge_size, margin) ==
    CASE position = "bottom_right" -> <<width - badge_size - margin, height - badge_size - margin>>
      [] position = "bottom_left" -> <<margin, height - badge_size - margin>>
      [] position = "top_right" -> <<width - badge_size - margin, margin>>
      [] position = "top_left" -> <<margin, margin>>
      [] OTHER -> <<width - badge_size - margin, height - badge_size - margin>>

\* _draw_badge: the shadow, two pixels down and right, the badge and the dot
draw_badge(x, y, is_home_flag, badge_size) ==
    [ style |-> OVERLAY_STYLE_BADGE,
      box   |-> <<x, y, x + badge_size + 2, y + badge_size + 2>>,
      fill  |-> IF is_home_flag THEN <<76, 175, 80, 180>> ELSE <<120, 120, 120, 140>> ]

\* _draw_text: the background rectangle around the text, eight pixels of padding
draw_text(x, y, is_home_flag, text_size) ==
    [ style |-> OVERLAY_STYLE_TEXT,
      box   |-> <<x - 8, y - 8, x + text_size[1] + 8, y + text_size[2] + 8>>,
      fill  |-> IF is_home_flag THEN <<144, 238, 144, 240>> ELSE <<200, 200, 200, 220>> ]

\* _draw_icon: the house for home, the struck circle for away
draw_icon(x, y, is_home_flag, icon_size) ==
    [ style |-> OVERLAY_STYLE_ICON,
      box   |-> IF is_home_flag
                THEN <<x + 4, y + 2, x + icon_size - 4, y + icon_size - 4>>
                ELSE <<x + 2, y + 2, x + icon_size - 2, y + icon_size - 2>>,
      fill  |-> IF is_home_flag THEN <<76, 175, 80, 200>> ELSE <<158, 158, 158, 180>> ]

\* _create_overlay: the anchor is computed from badge_size whatever the style,
\* then the shape of the style is drawn at the anchor; another style draws nothing
create_overlay(in) ==
    LET xy == calculate_position(in.width, in.height, in.position, in.badge_size, in.margin)
        x  == xy[1]
        y  == xy[2]
    IN  [ anchor |-> xy,
          drawn  |-> CASE in.style = "badge" -> draw_badge(x, y, in.is_home, in.badge_size)
                       [] in.style = "text"  -> draw_text(x, y, in.is_home, in.text_size)
                       [] in.style = "icon"  -> draw_icon(x, y, in.is_home, in.icon_size)
                       [] OTHER -> [style |-> "none"] ]

GeomInputs ==
    { [ width |-> size[1], height |-> size[2], is_home |-> h, position |-> p, style |-> st,
        badge_size |-> b, icon_size |-> i, font_size |-> f, margin |-> m, text_size |-> t ] :
        size \in ImageSizes, h \in BOOLEAN, p \in Positions, st \in Styles,
        b \in BadgeSizes, i \in IconSizes, f \in FontSizes, m \in Margins, t \in TextSizes }

CreateOverlay ==
    /\ geom_pc = "idle"
    /\ anchor' = create_overlay(geom_in).anchor
    /\ drawn' = create_overlay(geom_in).drawn
    /\ geom_pc' = "drawn"
    /\ UNCHANGED geom_in
    /\ UNCHANGED geom_rest

GeomNext == CreateOverlay

\* one call of _create_overlay, on its own
GeomInit ==
    /\ RunIdle
    /\ RadioIdle
    /\ FlowIdle
    /\ ApiIdle
    /\ ResolverIdle
    /\ MoreIdle
    /\ geom_in \in GeomInputs
    /\ geom_pc = "idle" /\ anchor = <<>> /\ drawn = [style |-> "none"]

GeomSpec == GeomInit /\ [][GeomNext]_vars

-----------------------------------------------------------------------------
(* image_processor.py: add_presence_overlay, invocation after invocation on one    *)
(* ImageProcessor.  The processor's only field besides hass is _font_cache, which  *)
(* no method reads or writes, so an invocation has nothing of an earlier one to    *)
(* look at but the disk.                                                           *)

\* the source images on the disk: the size Image.open gives for each path
SourceImages == {[path |-> "/media/a.jpg", size |-> <<800, 600>>],
                 [path |-> "/media/b.jpg", size |-> <<100, 100>>]}

\* the font files _draw_text looks for, in the order it tries them
FontFiles == <<"/System/Library/Fonts/Helvetica.ttc",
               "/usr/share/fonts/truetype/dejavu/DejaVuSans-Bold.ttf">>

\* the font files installed where the renderer runs
FontSets == {{}, {FontFiles[2]}}

\* _draw_text: the first of the two font files that loads, else the built-in font
load_font(installed) ==
    IF FontFiles[1] \in installed THEN FontFiles[1]
    ELSE IF FontFiles[2] \in installed THEN FontFiles[2]
    ELSE "default"

\* draw.textbbox: the width and height of the text in the font that was loaded
textbbox(font) == IF font = "default" THEN <<12, 9>> ELSE <<70, 18>>

\* the overlay configurations examined: the default sizes in three styles
OverlayConfigs ==
    { [position |-> pos_style[1], style |-> pos_style[2], badge_size |-> 40, icon_size |-> 32,
       font_size |-> 16, margin |-> 15] :
        pos_style \in {<<"bottom_right", "badge">>, <<"top_left", "text">>, <<"bottom_left", "icon">>} }

ImageQualities == {75, 95}

\* the arguments of one invocation, with the fonts installed at that moment
RenderInputs ==
    [ image : SourceImages, is_home : BOOLEAN, overlay_config : OverlayConfigs,
      image_quality : ImageQualities, fonts : FontSets ]

\* the drawing calls made on the overlay of one invocation, in order
overlay_of(in) ==
    LET made == create_overlay(
                  [ width |-> in.image.size[1], height |-> in.image.size[2],
                    is_home |-> in.is_home, position |-> in.overlay_config.position,
                    style |-> in.overlay_config.style,
                    badge_size |-> in.overlay_config.badge_size,
                    icon_size |-> in.overlay_config.icon_size,
                    font_size |-> in.overlay_config.font_size,
                    margin |-> in.overlay_config.margin,
                    text_size |-> textbbox(load_font(in.fonts)) ])
    IN  IF made.drawn.style = "none" THEN <<>> ELSE <<made.drawn>>

\* the JPEG that image.save writes: the source converted to RGB, the overlay
\* composited over it, at the quality given
encode_jpeg(img, canvas, image_quality) ==
    [ format |-> "JPEG", quality |-> image_quality, size |-> img.size,
      source |-> img.path, overlay |-> canvas ]

\* mutant: the overlay of the invocation before is drawn on again
AddPresenceOverlayKeepsCanvas ==
    /\ Len(renders) < MaxRenders
    /\ \E in \in RenderInputs :
         LET kept == IF renders = <<>> THEN <<>> ELSE renders[Len(renders)].out.overlay
         IN  renders' = Append(renders,
                 [in |-> in,
                  out |-> encode_jpeg(in.image, kept \o overlay_of(in), in.image_quality)])
    /\ UNCHANGED render_rest

\* add_presence_overlay: the image is opened, a new transparent overlay of its size
\* is made and drawn on, the two are composited and encoded
AddPresenceOverlay ==
    /\ Len(renders) < MaxRenders
    /\ \E in \in RenderInputs :
         renders' = Append(renders,
             [in |-> in,
              out |-> encode_jpeg(in.image, overlay_of(in), in.image_quality)])
    /\ UNCHANGED render_rest

RenderNext == AddPresenceOverlay

\* an ImageProcessor as __init__ leaves it, on its own
RenderInit ==
    /\ RunIdle
    /\ RadioIdle /\ FlowIdle /\ GeomIdle /\ ApiIdle /\ ResolverIdle
    /\ LookupIdle /\ ProbeIdle /\ PairIdle /\ RerunIdle /\ SvcIdle
    /\ renders = <<>>

RenderSpec == RenderInit /\ [][RenderNext]_vars

-----------------------------------------------------------------------------
(* coordinator.py: _find_bloomin_entity on a registry written out *)

\* the config entries of Home Assistant, in the order async_entries gives them
ConfigEntries(host1, host2) ==
    << [entry_id |-> "c1", domain |-> "bloomin8_eink_canvas", host |-> host1],
       [entry_id |-> "c2", domain |-> "bloomin8_eink_canvas", host |-> host2],
       [entry_id |-> "c3", domain |-> "cast", host |-> "192.168.1.60"] >>

\* the registry entries examined: two media players of the device family, one of
\* them by its name alone, a sensor of the device, and a media player of another kind
EntityPool ==
    { [entity_id |-> "media_player.bloomin8", platform |-> "bloomin8_eink_canvas",
       config_entry_id |-> "c1"],
      [entity_id |-> "media_player.eink_frame", platform |-> "generic",
       config_entry_id |-> "c2"],
      [entity_id |-> "sensor.bloomin8_battery", platform |-> "bloomin8_eink_canvas",
       config_entry_id |-> "c1"],
      [entity_id |-> "media_player.tv", platform |-> "cast", config_entry_id |-> "c3"] }

\* the lists of up to three different registry entries
EntityLists ==
    { l \in UNION {[1..n -> EntityPool] : n \in 0..3} :
        \A i, j \in DOMAIN l : i # j => l[i] # l[j] }

LookupRegistries ==
    [ entities : EntityLists,
      entries  : {ConfigEntries(h1, h2) : h1, h2 \in {bloomin_ip, "192.168.1.51"}},
      error    : {"no", "async_get", "method1", "walk"} ]

\* sub in s
Contains(s, sub) ==
    \E i \in 1..(Len(s) - Len(sub) + 1) : SubSeq(s, i, i + Len(sub) - 1) = sub

\* entity_id.startswith("media_player.")
IsMediaPlayer(entity_id) == Len(entity_id) >= 13 /\ SubSeq(entity_id, 1, 13) = "media_player."

EntityIds(l) == [i \in DOMAIN l |-> l[i].entity_id]

\* method 1: the media players bound to the first companion entry with the
\* device's address that has any
ViaEntry(reg) ==
    LET bound(c) == SelectSeq(reg.entities,
                      LAMBDA e : IsMediaPlayer(e.entity_id) /\ e.config_entry_id = c.entry_id)
        hits == SelectSeq(reg.entries,
                      LAMBDA c : /\ c.domain = "bloomin8_eink_canvas"
                                 /\ c.host = bloomin_ip
                                 /\ bound(c) # <<>>)
    IN  IF hits = <<>> THEN <<>> ELSE EntityIds(bound(hits[1]))

\* method 2: the media players of the device family, by platform or by name
IsFamily(e) ==
    /\ IsMediaPlayer(e.entity_id)
    /\ \/ e.platform = "bloomin8_eink_canvas"
       \/ Contains(e.entity_id, "bloomin")
       \/ Contains(e.entity_id, "eink")

\* method 2: the entity's config entry has the device's address
AddressMatches(reg, e) ==
    /\ e.config_entry_id # ""
    /\ \E i \in DOMAIN reg.entries :
          reg.entries[i].entry_id = e.config_entry_id /\ reg.entries[i].host = bloomin_ip

\* the registry as the lookup sees it
RegistryView(reg) ==
    [ via_entry |-> ViaEntry(reg),
      matching  |-> EntityIds(SelectSeq(reg.entities,
                       LAMBDA e : IsFamily(e) /\ AddressMatches(reg, e))),
      family    |-> EntityIds(SelectSeq(reg.entities, IsFamily)),
      error     |-> reg.error ]

FindBloominEntity ==
    /\ lookup = "pending"
    /\ lookup' = find_bloomin_entity(RegistryView(registry))
    /\ UNCHANGED registry
    /\ UNCHANGED lookup_rest

LookupNext == FindBloominEntity

LookupInit ==
    /\ RunIdle
    /\ RadioIdle /\ FlowIdle /\ GeomIdle /\ ApiIdle /\ ResolverIdle
    /\ RenderIdle /\ ProbeIdle /\ PairIdle /\ RerunIdle /\ SvcIdle
    /\ registry \in LookupRegistries
    /\ lookup = "pending"

LookupSpec == LookupInit /\ [][LookupNext]_vars

-----------------------------------------------------------------------------
(* bloomin_api.py: BloominAPI.discover_api_endpoints, one request at a time *)

\* the keys of endpoint_candidates, in the order the dict is walked
EndpointTypes == <<"upload", "wake", "info">>

endpoint_candidates ==
    [ upload |-> <<"/api/upload", "/upload", "/api/image", "/api/send">>,
      wake   |-> <<"/api/wake", "/wake", "/api/ping", "/ping">>,
      info   |-> <<"/api/info", "/info", "/api/status", "/status">> ]

\* what one request can come to: a response with a status, or an exception
ProbeResponses ==
    { [kind |-> "status", status |-> st] : st \in {200, 400, 404, 405, 500} }
    \cup { [kind |-> k, status |-> 0] : k \in {"ClientError", "TimeoutError", "Exception"} }

\* mutant: the info request accepts what the POST requests accept
ProbeAcceptsAlike(endpoint_type, resp) ==
    resp.kind = "status" /\ resp.status \in {200, 400, 405}

\* the test on response.status of each branch; an exception accepts nothing
ProbeAccepts(endpoint_type, resp) ==
    /\ resp.kind = "status"
    /\ IF endpoint_type \in {"upload", "wake"}
       THEN resp.status \in {200, 400, 405}
       ELSE resp.status = 200

TypeIndex(endpoint_type) == CHOOSE t \in 1..Len(EndpointTypes) : EndpointTypes[t] = endpoint_type

PathIndex(endpoint_type, path) ==
    CHOOSE i \in 1..Len(endpoint_candidates[endpoint_type]) :
        endpoint_candidates[endpoint_type][i] = path

\* where the two loops stand after the requests made so far: <<type, path>>
\* indexes of the next request; a break or the end of the paths goes on to the
\* next type
ProbePosition(made) ==
    IF made = <<>> THEN <<1, 1>>
    ELSE LET last == made[Len(made)]
             t == TypeIndex(last.endpoint_type)
             i == PathIndex(last.endpoint_type, last.path)
         IN  IF last.accepted \/ i = Len(endpoint_candidates[last.endpoint_type])
             THEN <<t + 1, 1>>
             ELSE <<t, i + 1>>

\* one pass of the inner loop: the request for the next path, its answer, and the
\* return after the last pass of the last type
ProbePath ==
    /\ probe_ret = "pending"
    /\ \E resp \in ProbeResponses :
         LET pos == ProbePosition(probes)
             endpoint_type == EndpointTypes[pos[1]]
             path == endpoint_candidates[endpoint_type][pos[2]]
             accepted == ProbeAccepts(endpoint_type, resp)
             made == Append(probes, [endpoint_type |-> endpoint_type, path |-> path,
                                     accepted |-> accepted])
             found == IF accepted THEN [endpoints EXCEPT ![endpoint_type] = path]
                      ELSE endpoints
         IN  /\ probe_resp' = resp
             /\ probes' = made
             /\ endpoints' = found
             /\ probe_ret' = IF ProbePosition(made)[1] <= Len(EndpointTypes) THEN "pending"
                             ELSE IF \E t \in DOMAIN found : found[t] # "" THEN "dict"
                             ELSE "None"
    /\ UNCHANGED probe_rest

\* the next call starts with an empty dict
ProbeCall ==
    /\ probe_ret # "pending"
    /\ probes' = <<>>
    /\ probe_resp' = [kind |-> "none", status |-> 0]
    /\ endpoints' = [upload |-> "", wake |-> "", info |-> ""]
    /\ probe_ret' = "pending"
    /\ UNCHANGED probe_rest

ProbeNext ==
    \/ ProbePath
    \/ ProbeCall

ProbeInit ==
    /\ RunIdle
    /\ RadioIdle /\ FlowIdle /\ GeomIdle /\ ApiIdle /\ ResolverIdle
    /\ RenderIdle /\ LookupIdle /\ ProbeIdle /\ PairIdle /\ RerunIdle /\ SvcIdle

ProbeSpec == ProbeInit /\ [][ProbeNext]_vars

-----------------------------------------------------------------------------
(* coordinator.py: two runs of process_and_upload_image on one Home Assistant    *)
(* instance, from the wake chain to the play_media calls, for a person who is    *)
(* known and an image that is rendered.  Each run is a task of the one event      *)
(* loop; the radio, the service calls and the HTTP request are awaited, the write *)
(* and the exists() test are awaited in a worker thread, so the other run can go  *)
(* on between any two of the steps below                                          *)

\* the entry ids of the coordinators: the same entry twice, or two entries
PairEntries == {EntryId, "e2"}

PairRuns == {1, 2}

OtherRun(r) == IF r = 1 THEN 2 ELSE 1

\* open(output_path, "wb") and f.write: the file is created, or truncated and
\* written over when the path exists
WriteOver(dir, path, owner) ==
    IF \E k \in 1..Len(dir) : dir[k].path = path
    THEN [k \in 1..Len(dir) |-> IF dir[k].path = path
                                THEN [path |-> path, owner |-> owner]
                                ELSE dir[k]]
    ELSE Append(dir, [path |-> path, owner |-> owner])

\* the run whose image the file at path holds
OwnerOf(dir, path) == (dir[CHOOSE k \in 1..Len(dir) : dir[k].path = path]).owner

\* what the world answered a run: the radio wake, the entity lookup and the
\* service registry, the whistle call, the HTTP wake, and the play_media call
\* that was accepted (0: none)
NoAnswers ==
    [ble |-> "unasked", found |-> "unasked", svc |-> "unasked", call |-> "unasked",
     http |-> "unasked", play |-> 0]

\* a run of a coordinator that has not begun its wake chain
NewRun(entry_id) ==
    [entry_id |-> entry_id, pc |-> "wake_ble", channels |-> <<>>, answers |-> NoAnswers,
     result |-> "running", timestamp |-> 0, output_path |-> "", shown |-> 0]

\* where a run of the pair stands after a step of wake_device: delivery follows
\* the return of wake_device, and an exception ends the run with False
PairStage(target) ==
    IF target = "wake_return" THEN "start"
    ELSE IF target = "except" THEN "done"
    ELSE target

PairResult(target, before) == IF target = "except" THEN "False" ELSE before

\* the radio wake of run r
PairWakeBLE(r) ==
    /\ pair[r].pc = "wake_ble"
    /\ \E success \in {"True", "False"} :
         pair' = [pair EXCEPT ![r].pc = PairStage(AfterBLE(success)),
                              ![r].channels = Append(@, <<"BLE", success>>),
                              ![r].answers.ble = success]
    /\ UNCHANGED files
    /\ UNCHANGED pair_rest

\* the entity lookup and the check of the service registry of run r
PairWakeCompanion(r) ==
    /\ pair[r].pc = "wake_lookup"
    /\ \E found \in {"None", "raise", "media_player.bloomin8"}, svc \in {"whistle", "no_domain"} :
         LET target == AfterCompanionLookup(found, svc) IN
         pair' = [pair EXCEPT ![r].pc = PairStage(target),
                              ![r].result = PairResult(target, @),
                              ![r].answers.found = found,
                              ![r].answers.svc = svc]
    /\ UNCHANGED files
    /\ UNCHANGED pair_rest

\* the whistle call of run r
PairWakeWhistle(r) ==
    /\ pair[r].pc = "wake_whistle"
    /\ \E res \in {"ok", "Exception"} :
         pair' = [pair EXCEPT ![r].pc = PairStage(AfterWhistle(res)),
                              ![r].channels =
                                  Append(@, <<"whistle", IF res = "ok" THEN "True" ELSE "False">>),
                              ![r].answers.call = res]
    /\ UNCHANGED files
    /\ UNCHANGED pair_rest

\* the HTTP wake of run r
PairWakeHTTP(r) ==
    /\ pair[r].pc = "wake_http"
    /\ \E success \in {"True", "False"} :
         pair' = [pair EXCEPT ![r].pc = PairStage("wake_return"),
                              ![r].channels = Append(@, <<"HTTP", success>>),
                              ![r].answers.http = success]
    /\ UNCHANGED files
    /\ UNCHANGED pair_rest

\* timestamp = int(time.time() * 1000) and the file name made of it: the clock
\* does not go back, and a run that starts after the other has made its call
\* reads a later millisecond
PairStamp(r) ==
    /\ pair[r].pc = "start"
    /\ \E ts \in 1..MaxTime :
         /\ ts >= pair[OtherRun(r)].timestamp
         /\ pair[OtherRun(r)].pc = "handed" => ts > pair[OtherRun(r)].timestamp
         /\ pair' = [pair EXCEPT ![r].pc = "stamped",
                                 ![r].timestamp = ts,
                                 ![r].output_path =
                                     OutputPath(MediaDir, ImageFilename(pair[r].entry_id, ts))]
    /\ UNCHANGED files
    /\ UNCHANGED pair_rest

\* _write_file in the worker thread, and the exists() test after it
PairWrite(r) ==
    /\ pair[r].pc = "stamped"
    /\ files' = WriteOver(files, pair[r].output_path, r)
    /\ pair' = [pair EXCEPT ![r].pc = "written"]
    /\ UNCHANGED pair_rest

\* the loop over the variants when the call of variant k is the one accepted
\* (0: none is): what process_and_upload_image returns
RECURSIVE PlayMediaLoop(_, _, _)
PlayMediaLoop(k, i, n) ==
    LET target == AfterPlayMedia(IF i = k THEN "ok" ELSE "Exception", i, n) IN
    IF target = "play_media" THEN PlayMediaLoop(k, NextVariant(i), n)
    ELSE IF target = "return_true" THEN "True"
    ELSE "False"

\* the play_media calls: the companion integration reads the file the path names
PairPlayMedia(r) ==
    /\ pair[r].pc = "written"
    /\ LET n == Len(media_content_id_variants(MediaDir,
                         ImageFilename(pair[r].entry_id, pair[r].timestamp)))
       IN  \E k \in 0..n :
             pair' = [pair EXCEPT ![r].pc = "handed",
                                  ![r].shown = OwnerOf(files, pair[r].output_path),
                                  ![r].answers.play = k,
                                  ![r].result = PlayMediaLoop(k, 1, n)]
    /\ UNCHANGED files
    /\ UNCHANGED pair_rest

PairNext ==
    \E r \in PairRuns :
        \/ PairWakeBLE(r)
        \/ PairWakeCompanion(r)
        \/ PairWakeWhistle(r)
        \/ PairWakeHTTP(r)
        \/ PairStamp(r)
        \/ PairWrite(r)
        \/ PairPlayMedia(r)

PairInit ==
    /\ RunIdle
    /\ RadioIdle /\ FlowIdle /\ GeomIdle /\ ApiIdle /\ ResolverIdle
    /\ RenderIdle /\ LookupIdle /\ ProbeIdle /\ RerunIdle /\ SvcIdle
    /\ \E e1, e2 \in PairEntries : pair = << NewRun(e1), NewRun(e2) >>
    /\ files = <<>>

PairSpec == PairInit /\ [][PairNext]_vars

-----------------------------------------------------------------------------
(* coordinator.py: get_image_path and get_latest_image on their own *)

Disks == [kind : FileKinds, folder : FolderEnvs]

GetImagePath ==
    /\ resolver.fn = "none"
    /\ \E v \in get_image_path(cfg, disk.kind, disk.folder) :
         resolver' = [fn |-> "get_image_path", value |-> v]
    /\ UNCHANGED disk
    /\ UNCHANGED resolver_rest

GetLatestImage ==
    /\ resolver.fn = "none"
    /\ \E v \in get_latest_image(cfg.media_folder, disk.folder) :
         resolver' = [fn |-> "get_latest_image", value |-> v]
    /\ UNCHANGED disk
    /\ UNCHANGED resolver_rest

ResolverNext ==
    \/ GetImagePath
    \/ GetLatestImage

ResolverInit ==
    /\ \E src \in {IMAGE_SOURCE_FOLDER, IMAGE_SOURCE_FILE},
          path \in {"", "photo.jpg", "/config/photo.jpg"} :
          /\ (src = IMAGE_SOURCE_FOLDER => path = "")
          /\ cfg = Coordinator(FALSE, "aa-bb-cc-dd-ee-ff", <<"person.a">>, "", src, path)
    /\ pc = "idle"
    /\ result = "idle"
    /\ RunInit
    /\ RadioIdle
    /\ FlowIdle
    /\ GeomIdle
    /\ ApiIdle
    /\ MoreIdle
    /\ disk \in Disks
    /\ resolver = [fn |-> "none", value |-> "pending"]

ResolverSpec == ResolverInit /\ [][ResolverNext]_vars

-----------------------------------------------------------------------------
(* bloomin_api.py: a BloominAPI object on its own *)

ApiInit ==
    /\ RunIdle
    /\ RadioIdle
    /\ FlowIdle
    /\ GeomIdle
    /\ ResolverIdle
    /\ MoreIdle
    /\ \E up \in EndpointArgs, wk \in EndpointArgs :
         api = BloominAPI("192.168.1.50", up, wk)
    /\ api_req = [fn |-> "none"]
    /\ api_ret = "pending"

ApiSpec == ApiInit /\ [][ApiNext]_vars

-----------------------------------------------------------------------------
(* Properties *)

Finished == result \in {"True", "False"}
NoChannelOk == ble # "ok" /\ whistle # "ok" /\ http # "ok"
HttpCalled == http # "untried"
NoDeliveryAction ==
    /\ entity = "unset" /\ written = "unset" /\ timestamp = 0
    /\ calls = <<>> /\ uploads = 0
StageList == <<"WakeDevice", "ResolveImage", "Render", "Deliver">>
Entered(stage) == \E i \in DOMAIN stages : stages[i] = stage

\* C1: within one call of wake_device the channels are attempted in the order radio,
\* companion whistle, HTTP endpoint: the companion lookup and the whistle call happen
\* only after the radio attempt failed or was skipped, and the HTTP request only
\* after both the radio and the whistle channel failed or were skipped.
C1_WakeOrder ==
    /\ (wake_entity # "unset" \/ whistle # "untried") => ble \in {"skipped", "failed"}
    /\ HttpCalled => (ble \in {"skipped", "failed"} /\ whistle \in {"skipped", "failed"})
    /\ pc = "wake_whistle" => ble \in {"skipped", "failed"}
    /\ pc = "wake_http" => (ble \in {"skipped", "failed"} /\ whistle \in {"skipped", "failed"})

\* a run in which the radio attempt and the whistle call failed and the HTTP request was made
C1_Witness == ble = "failed" /\ whistle = "failed" /\ http = "ok"

\* C2: once a wake channel has succeeded no lower-priority channel is attempted in
\* that call: after a radio success there is no entity lookup, no whistle call and
\* no HTTP request, after a whistle success no HTTP request; at most one channel
\* succeeds, and wake_device has returned.
C2_FirstSuccessWins ==
    /\ ble = "ok" => (wake_entity = "unset" /\ whistle = "untried" /\ http = "untried")
    /\ whistle = "ok" => http = "untried"
    /\ Cardinality({c \in {"ble", "whistle", "http"} :
                      (c = "ble" /\ ble = "ok") \/ (c = "whistle" /\ whistle = "ok")
                      \/ (c = "http" /\ http = "ok")}) <= 1
    /\ ~NoChannelOk => pc \notin {"wake_ble", "wake_lookup", "wake_whistle", "wake_http"}

\* a finished run whose radio wake succeeded
C2_Witness == ble = "ok" /\ Finished

C4_WakeNeverRaises == wake_ret # "raised"

\* the stage a finished run failed in
PresenceFailed == Finished /\ wake_ret = "None" /\ ~Entered("ResolveImage")
ResolveFailed == Finished /\ Entered("ResolveImage") /\ ~Entered("Render")
RenderFailed == processed = "raised"

\* C5: a failed wake never aborts the run: a finished run in which no wake channel
\* succeeded and in which neither the presence, the image resolution nor the
\* rendering failed has attempted the delivery.
C5_WakeFailureDoesNotAbort ==
    (Finished /\ NoChannelOk /\ ~PresenceFailed /\ ~ResolveFailed /\ ~RenderFailed)
        => Entered("Deliver")

\* the companion channel of a finished run failed: no entity, or every variant rejected
CompanionFailed ==
    \/ entity = "None"
    \/ (Len(calls) = Len(Variants) /\ \A i \in DOMAIN calls : ~calls[i].accepted)

\* C6: in a run that reached the delivery stage the raw upload is attempted if and
\* only if the companion entity was not resolved or every variant was rejected,
\* and the run fails only if the upload was attempted too.
C6_UploadIffCompanionFailed ==
    (Finished /\ Entered("Deliver")) =>
        /\ (uploads > 0) <=> CompanionFailed
        /\ result = "False" => uploads > 0

\* the play_media calls follow the list of variants, entry by entry; only the last
\* call can be an accepted one, and the run returns True exactly when it is
PlayMediaFollowsList ==
    /\ Len(calls) <= Len(Variants)
    /\ \A i \in DOMAIN calls :
         /\ calls[i].id = Variants[i]
         /\ calls[i].accepted => i = Len(calls)
    /\ (result = "True") <=> (calls # <<>> /\ calls[Len(calls)].accepted)
    /\ (calls # <<>> /\ result = "False") =>
          (Len(calls) = Len(Variants) /\ \A i \in DOMAIN calls : ~calls[i].accepted)
    /\ (calls # <<>> /\ result = "running") =>
          (pc = "play_media" /\ idx = Len(calls) + 1 /\ idx <= Len(Variants))

\* C7 as stated: the variants are tried in list order, the first accepted call ends
\* the loop with success, a rejected one leads to the next, the channel fails only
\* when all were rejected, and no media_content_id string is submitted twice.
C7_EachStringOnce ==
    /\ PlayMediaFollowsList
    /\ \A i, j \in DOMAIN calls : i # j => calls[i].id # calls[j].id

\* C7 as amended: the same, except that it is each of the five list entries that is
\* tried at most once: entries 1 and 4, and entries 2 and 5, are the same string,
\* which is submitted a second time when it was rejected the first time.
C7_EachEntryOnce ==
    /\ PlayMediaFollowsList
    /\ Len(Variants) = 5
    /\ Variants[4] = Variants[1] /\ Variants[5] = Variants[2]
    /\ \A i, j \in DOMAIN calls :
         (i < j /\ calls[i].id = calls[j].id) => (j = i + 3 /\ ~calls[i].accepted)

\* the fourth call is accepted, with the string the first call was rejected with
C7_Witness ==
    /\ result = "True" /\ Len(calls) = 4
    /\ calls[4].id = calls[1].id /\ ~calls[1].accepted

\* C8: the stages of a run are entered in the order WakeDevice, ResolveImage, Render,
\* Deliver, each at most once and none before the one before it; Done follows the
\* stage the run ended in and nothing follows Done.
C8_StageOrder ==
    /\ \/ stages = <<>> /\ pc = "idle"
       \/ \E k \in 1..Len(StageList) :
            \/ stages = SubSeq(StageList, 1, k) /\ result = "running"
            \/ stages = SubSeq(StageList, 1, k) \o <<"Done">> /\ Finished /\ pc = "done"
    /\ pc \in {"wake_ble", "wake_lookup", "wake_whistle", "wake_http", "presence", "resolve"}
          => stages = <<"WakeDevice">>
    /\ pc = "render" => stages = SubSeq(StageList, 1, 2)
    /\ pc = "deliver_lookup" => stages = SubSeq(StageList, 1, 3)
    /\ pc \in {"write", "play_media"} => stages = StageList

\* a run that went through all five stages
C8_Witness == stages = StageList \o <<"Done">> /\ result = "True"

\* C9: when the image resolution yields no image, or the path it yields does not
\* exist, the run returns False and neither the renderer nor any delivery action
\* (entity lookup, file write, play_media, upload) has run.
C9_NoImageAborts ==
    (image = "None" \/ exists = "False") =>
        /\ result = "False"
        /\ source = "unset" /\ processed = "unset"
        /\ NoDeliveryAction
        /\ ~Entered("Render") /\ ~Entered("Deliver")

\* single-file mode with a configured path that resolves to no regular file
C9_Witness ==
    /\ cfg.image_source = IMAGE_SOURCE_FILE /\ cfg.image_path # ""
    /\ arg = "None" /\ image = "None" /\ result = "False"

\* C10: when the source image is unreadable or corrupt the renderer raises, the run
\* returns False and no delivery action has run.
C10_RenderFailureFatal ==
    source \in {"unreadable", "corrupt"} =>
        /\ processed = "raised"
        /\ result = "False"
        /\ NoDeliveryAction
        /\ ~Entered("Deliver")

\* a finished run whose source image was corrupt
C10_Witness == source = "corrupt" /\ processed = "raised" /\ Finished

\* an exception was raised inside the run: by the entity lookup or the service
\* registry in wake_device, by get_media_folder_path, by the renderer, or by the
\* creation of the output directory
RaisedInside ==
    \/ wake_ret = "raised"
    \/ processed = "raised"
    \/ (pc = "done" /\ stages = <<"WakeDevice", "ResolveImage", "Done">> /\ image = "unset")
    \/ (pc = "done" /\ Entered("Deliver") /\ entity = "unset")
    \/ (pc = "done" /\ entity = BloominEntity /\ timestamp = 0)

\* C11: process_and_upload_image never raises to its caller: whatever fails in the
\* wake, the presence lookup, the image resolution, the rendering, the writing of
\* the output file or the service calls, a call that has ended has returned True
\* or False, and one in which an exception was raised inside has returned False.
C11_AlwaysReturnsBool ==
    /\ result \in {"idle", "running", "True", "False"}
    /\ pc = "done" <=> Finished
    /\ RaisedInside => result = "False"

\* a run that ended on an exception raised by the entity lookup of the wake chain
C11_Witness == wake_ret = "raised" /\ pc = "done" /\ result = "False"

C13_PresenceIsOr ==
    /\ is_home # "unset" =>
         (is_home = "True" <=>
            \E i \in DOMAIN cfg.person_entities :
               /\ states[cfg.person_entities[i]] # "missing"
               /\ states[cfg.person_entities[i]] = "home")
    /\ (pc = "render" \/ Entered("Render")) => is_home \in {"True", "False"}

\* the renderer was given True for a group whose first person is home and whose
\* second person is not
C13_Witness ==
    /\ Entered("Render") /\ is_home = "True"
    /\ Len(cfg.person_entities) = 2
    /\ cfg.person_entities[1] # cfg.person_entities[2]
    /\ states[cfg.person_entities[1]] = "home"
    /\ states[cfg.person_entities[2]] \in {"not_home", "Home"}

\* the upper-case colon-separated form of the address submitted, written out
CanonicalOfInput ==
    IF flow_in.ble_mac_address \in {"aa-bb-cc-dd-ee-ff", "AA_BB_CC_DD_EE_FF", "aa:bb:cc:dd:ee:ff"}
    THEN "AA:BB:CC:DD:EE:FF"
    ELSE "AB:CD:EF:01:9A:F6"

\* the checks of a submission other than that of the radio address pass
OtherChecksPass ==
    /\ flow_in.flow = "config" => flow_in.person_found
    /\ \/ flow_in.image_source = IMAGE_SOURCE_FOLDER /\ flow_in.media_folder # ""
       \/ flow_in.image_source = IMAGE_SOURCE_FILE /\ flow_in.image_path # ""
          /\ flow_in.kind = "file"

\* C14: "aa-bb-cc-dd-ee-ff", "AA_BB_CC_DD_EE_FF" and "aa:bb:cc:dd:ee:ff" normalize to
\* "AA:BB:CC:DD:EE:FF"; for every address of six two-hex-digit groups, with any mix
\* of ':', '-' and '_' and in any letter case, the value the validator of either
\* flow computes and the address the ble_wake functions connect to are the
\* upper-case colon-separated form.
C14_MacNormalization ==
    /\ NormalizeMac("aa-bb-cc-dd-ee-ff") = "AA:BB:CC:DD:EE:FF"
    /\ NormalizeMac("AA_BB_CC_DD_EE_FF") = "AA:BB:CC:DD:EE:FF"
    /\ NormalizeMac("aa:bb:cc:dd:ee:ff") = "AA:BB:CC:DD:EE:FF"
    /\ flow_in.ble_mac_address \in WellFormedMacs =>
          /\ mac_normalized \in {"", CanonicalOfInput}
          /\ radio_addr \in {"", CanonicalOfInput}
          /\ (flow_pc # "idle" /\ flow_in.use_ble_wake /\ OtherChecksPass)
                => mac_normalized = CanonicalOfInput
          /\ (flow_pc # "idle" /\ flow_in.use_ble_wake /\ flow_in.flow = "options")
                => mac_normalized = CanonicalOfInput

\* the config flow validated an address in mixed case with all three separators
\* and connected to its normalized form in the wake test
C14_Witness ==
    /\ flow_in.flow = "config"
    /\ flow_in.ble_mac_address = "aB_Cd-eF:01_9A-f6"
    /\ mac_normalized = "AB:CD:EF:01:9A:F6"
    /\ radio_addr = "AB:CD:EF:01:9A:F6"

\* C20: with radio wake enabled, either flow accepts the address if and only if it
\* is six groups of two hexadecimal digits after normalization; an empty or
\* malformed address gives the error ble_mac_address_required or
\* invalid_ble_mac_address (in the config flow when no earlier check failed), no
\* entry is created, and no wake channel has been attempted.
C20_MalformedMacRejected ==
    /\ (flow_pc # "idle" /\ flow_in.use_ble_wake) =>
          /\ flow_in.ble_mac_address \notin WellFormedMacs =>
                /\ flow_pc = "form"
                /\ errors # "none"
                /\ (OtherChecksPass \/ flow_in.flow = "options") =>
                      errors = (IF flow_in.ble_mac_address = ""
                                THEN "ble_mac_address_required"
                                ELSE "invalid_ble_mac_address")
                /\ entry = "none" /\ attempts = <<>> /\ radio_addr = ""
          /\ flow_in.ble_mac_address \in WellFormedMacs =>
                /\ errors \notin {"ble_mac_address_required", "invalid_ble_mac_address"}
                /\ OtherChecksPass => errors = "none"
    /\ errors # "none" => (entry = "none" /\ attempts = <<>> /\ flow_pc = "form")
    /\ entry = "created" => flow_pc = "done"

\* the config flow showed its form again for an address whose last group is no
\* hexadecimal number
C20_Witness ==
    /\ flow_in.flow = "config" /\ flow_in.use_ble_wake
    /\ flow_in.ble_mac_address = "aa:bb:cc:dd:ee:fg"
    /\ flow_pc = "form" /\ errors = "invalid_ble_mac_address"
    /\ entry = "none" /\ attempts = <<>>

\* C15: the anchor is (width - size - margin, height - size - margin) at the bottom
\* right, (margin, height - size - margin) at the bottom left, (width - size -
\* margin, margin) at the top right and (margin, margin) at the top left, size
\* being the element size handed to _calculate_position; for an 800x600 source,
\* badge_size 40, margin 15 and bottom_right it is (745, 545).
C15_AnchorFormula ==
    geom_pc = "drawn" =>
       LET w == geom_in.width
           h == geom_in.height
           e == geom_in.badge_size
           m == geom_in.margin
       IN  /\ geom_in.position = "bottom_right" => anchor = <<w - e - m, h - e - m>>
           /\ geom_in.position = "bottom_left" => anchor = <<m, h - e - m>>
           /\ geom_in.position = "top_right" => anchor = <<w - e - m, m>>
           /\ geom_in.position = "top_left" => anchor = <<m, m>>
           /\ (w = 800 /\ h = 600 /\ e = 40 /\ m = 15 /\ geom_in.position = "bottom_right")
                 => anchor = <<745, 545>>

\* a badge drawn at the bottom right of an 800x600 image, at (745, 545)
C15_Witness ==
    /\ geom_pc = "drawn" /\ geom_in.style = "badge"
    /\ geom_in.width = 800 /\ geom_in.height = 600 /\ geom_in.position = "bottom_right"
    /\ geom_in.badge_size = 40 /\ geom_in.margin = 15
    /\ anchor = <<745, 545>>
    /\ drawn.style = "badge"

\* the element size of a style: the badge size, the font size, the icon size
ElementSize(in) ==
    CASE in.style = "badge" -> in.badge_size
      [] in.style = "text" -> in.font_size
      [] in.style = "icon" -> in.icon_size

\* C16: in each of the four corners and for each of the styles badge, text and
\* icon, with its own element size, the rectangle from the anchor to the anchor
\* plus the element size lies within the image whenever the element size plus
\* twice the margin is at most the smaller side of the image.
C16_ElementWithinImage ==
    ( /\ geom_pc = "drawn"
      /\ geom_in.style \in {"badge", "text", "icon"}
      /\ geom_in.position \in {"bottom_right", "bottom_left", "top_right", "top_left"}
      /\ LET smaller == IF geom_in.width < geom_in.height THEN geom_in.width
                        ELSE geom_in.height
         IN ElementSize(geom_in) + 2 * geom_in.margin <= smaller )
    => /\ 0 <= anchor[1] /\ anchor[1] + ElementSize(geom_in) <= geom_in.width
       /\ 0 <= anchor[2] /\ anchor[2] + ElementSize(geom_in) <= geom_in.height

\* C17: wake_device and upload_image return True if and only if the device
\* answered with status 200 and False otherwise, never an exception, and the
\* request goes to the path handed to the constructor, or to /api/wake and
\* /api/upload when none was.
C17_StatusToBool ==
    api_req.fn # "none" =>
       /\ api_ret \in {"True", "False"}
       /\ api_ret = "True" <=> api_req.resp = "200"
       /\ api_req.fn = "wake_device" =>
             api_req.url \in {"http://192.168.1.50/api/wake", "http://192.168.1.50/custom"}
       /\ api_req.fn = "upload_image" =>
             api_req.url \in {"http://192.168.1.50/api/upload", "http://192.168.1.50/custom"}

\* the folder-mode resolver was called: get_latest_image, directly or through
\* get_image_path
FolderResolved ==
    \/ resolver.fn = "get_latest_image"
    \/ resolver.fn = "get_image_path" /\ cfg.image_source = IMAGE_SOURCE_FOLDER

\* the media folder holds no regular file with one of the four extensions
NoEligibleFile ==
    \A i \in DOMAIN disk.folder.listing :
       \/ ~disk.folder.listing[i].is_file
       \/ disk.folder.listing[i].suffix \notin
             {".jpg", ".jpeg", ".png", ".bmp", ".JPG", ".Png"}

\* C18: the folder-mode resolver gives None, and raises nothing, on an empty
\* folder, on a folder without a file of extension jpg, jpeg, png or bmp in any
\* letter case, on a missing folder and on an unreadable one.
C18_NoImageIsNone ==
    ( /\ FolderResolved
      /\ \/ disk.folder.kind \in {"absent", "absent_mkdir_fails", "vanished"}
         \/ disk.folder.iterdir # "ok"
         \/ NoEligibleFile )
    => resolver.value = "None"

\* C19: in single-file mode get_image_path gives a path only if the configured
\* path exists and is a regular file: the configured path itself when it is
\* absolute, the media root joined with it when it is relative; an empty, a
\* nonexistent and a non-regular path give None.
C19_SingleFile ==
    (resolver.fn = "get_image_path" /\ cfg.image_source = IMAGE_SOURCE_FILE) =>
       /\ resolver.value # "raise"
       /\ resolver.value = "None" <=> (cfg.image_path = "" \/ disk.kind # "file")
       /\ resolver.value # "None" =>
             resolver.value = (IF cfg.image_path = "/config/photo.jpg"
                               THEN "/config/photo.jpg"
                               ELSE "/media/" \o cfg.image_path)

\* a relative path that is a regular file under the media root
C19_Witness ==
    /\ resolver.fn = "get_image_path" /\ cfg.image_source = IMAGE_SOURCE_FILE
    /\ cfg.image_path = "photo.jpg" /\ disk.kind = "file"
    /\ resolver.value = "/media/photo.jpg"

OneAttemptPerChannel ==
    /\ pc = "wake_ble" => (ble = "untried" /\ whistle = "untried" /\ http = "untried")
    /\ pc = "wake_lookup" => (ble # "untried" /\ whistle = "untried" /\ http = "untried")
    /\ pc = "wake_whistle" => (whistle = "untried" /\ http = "untried")
    /\ pc = "wake_http" => http = "untried"

\* the play_media calls of this run are one per list entry, in list order
OneCallPerCandidate ==
    /\ Len(calls) <= Len(Variants)
    /\ \A i \in DOMAIN calls : calls[i].id = Variants[i]
    /\ pc = "play_media" => idx = Len(calls) + 1

\* C22: when every awaited operation returns or fails, a run of
\* process_and_upload_image that was started reaches its end with True or False,
\* having attempted each wake channel at most once and made at most one play_media
\* call per list entry.
C22_RunTerminates ==
    /\ [](OneAttemptPerChannel /\ OneCallPerCandidate)
    /\ (result = "running") ~> (pc = "done" /\ result \in {"True", "False"})

\* a run ended after all three wake channels failed and all five calls were rejected
C22_Witness ==
    /\ pc = "done" /\ result = "False"
    /\ ble = "failed" /\ whistle = "failed" /\ http = "failed"
    /\ Len(calls) = 5

\* the radio channel is not configured: radio wake is off, or there is no address
RadioAbsent == ~cfg.use_ble_wake \/ cfg.ble_mac_address = ""

\* wake_device has gone past the radio channel in this run
PastRadio == pc \notin {"idle", "wake_ble"}

\* the companion channel was turned to: the entity lookup is next, or was made
CompanionTurnedTo == pc = "wake_lookup" \/ wake_entity # "unset" \/ wake_ret = "raised"

\* C23: when radio wake is off or no address is configured, wake_device does not
\* call wake_device_via_ble, so no connection is attempted, and goes on to the
\* companion lookup; when the radio library is unavailable, wake_device_via_ble
\* returns before any connection attempt and wake_device goes on to the companion
\* lookup as well.  A connection is attempted only with the channel configured and
\* the library available.
C23_AbsentRadioSkipped ==
    /\ (PastRadio /\ RadioAbsent) =>
          /\ ble = "skipped"
          /\ wake_env.radio = "uncalled" /\ wake_env.bleak = "unasked"
          /\ CompanionTurnedTo
    /\ ble = "skipped" => RadioAbsent
    /\ wake_env.bleak = "unavailable" =>
          /\ wake_env.radio = "unavailable"
          /\ ble = "failed"
          /\ CompanionTurnedTo
    /\ wake_env.radio = "connect" =>
          (cfg.use_ble_wake /\ cfg.ble_mac_address # "" /\ wake_env.bleak = "available")

\* with the radio library unavailable the whistle call woke the device
C23_Witness ==
    /\ wake_env.bleak = "unavailable" /\ wake_env.radio = "unavailable"
    /\ ble = "failed" /\ whistle = "ok" /\ wake_ret = "None"

\* the entity lookup of wake_device returned an entity
WakeEntityResolved == wake_entity \notin {"unset", "None"}

\* wake_device is past the companion channel, and what it was answered is still known
CompanionDecided == pc \in {"wake_http", "presence"} /\ wake_entity # "unset"

\* C24: the whistle call is made only for a resolved entity and with the action
\* eink_display.whistle registered, and the companion channel succeeded exactly
\* when that call completed without error.  With no entity, with the domain or the
\* action missing, or with the call raising a ValueError or any other error, the
\* channel did not succeed and wake_device goes on to the HTTP wake request, which
\* it makes once; after a whistle success it makes none.
C24_WhistleChannel ==
    /\ (pc = "wake_whistle" \/ wake_env.call # "uncalled") =>
          (WakeEntityResolved /\ wake_env.services = "whistle")
    /\ whistle = "ok" => (WakeEntityResolved /\ http = "untried" /\ pc # "wake_http")
    /\ CompanionDecided =>
          /\ whistle = "ok" <=>
                (WakeEntityResolved /\ wake_env.services = "whistle" /\ wake_env.call = "ok")
          /\ whistle \in {"skipped", "failed"} <=>
                \/ wake_entity = "None"
                \/ wake_env.services \in {"no_domain", "no_action"}
                \/ wake_env.call \in {"ValueError", "Exception"}
          /\ whistle \in {"ok", "skipped", "failed"}
    /\ whistle \in {"skipped", "failed"} =>
          \/ pc = "wake_http" /\ http = "untried"
          \/ pc # "wake_http" /\ http \in {"ok", "failed"}

\* the whistle call raised a ValueError and the HTTP request woke the device
C24_Witness ==
    /\ WakeEntityResolved /\ wake_env.services = "whistle" /\ wake_env.call = "ValueError"
    /\ whistle = "failed" /\ http = "ok" /\ pc = "presence"

\* C25: the lookup gives the first media player bound to the companion entry with
\* the device's address; failing that, the first media player of the device
\* family whose entry has the device's address; failing that, the one media
\* player of the device family if there is exactly one; and no entity when there
\* are two or more of the family and none matches the address.
C25_ThreeTiers ==
    (lookup # "pending" /\ registry.error = "no") =>
       LET view == RegistryView(registry) IN
       lookup = (IF view.via_entry # <<>> THEN view.via_entry[1]
                 ELSE IF view.matching # <<>> THEN view.matching[1]
                 ELSE IF Len(view.family) = 1 THEN view.family[1]
                 ELSE "None")


-----------------------------------------------------------------------------
(* The characteristic discover_ble_services resolves, and the wake after it *)

\* the places of the characteristics in the enumerated table: <<service, index>>
GattPlaces == { pl \in (1..Len(gatt)) \X (1..(MaxChars + 1)) : pl[2] <= Len(gatt[pl[1]]) }

WritableAt(pl) == "write" \in gatt[pl[1]][pl[2]].properties

KnownAt(pl) ==
    /\ WritableAt(pl)
    /\ StrLower(gatt[pl[1]][pl[2]].uuid) = "0000f001-0000-1000-8000-00805f9b34fb"

\* pl comes before ql in enumeration order
EnumeratedBefore(pl, ql) == pl[1] < ql[1] \/ (pl[1] = ql[1] /\ pl[2] < ql[2])

PairAt(pl) ==
    [service_uuid |-> ServiceUuid(pl[1]), characteristic_uuid |-> gatt[pl[1]][pl[2]].uuid]

\* the enumeration was walked to the end and its result is the one the call
\* returns (a disconnect() that raises in the finally clause replaces it by None)
ResolutionStands ==
    /\ radio_in.fn = "discover_ble_services"
    /\ gatt # <<>>
    /\ radio_pc = "finally" \/ (radio_pc = "returned" /\ disconnect # "BleakError")

C27_OneWriteAndItsResult ==
    (radio_in.fn = "wake_device_via_ble" /\ radio_pc = "returned") =>
        /\ Len(writes) <= 1
        /\ \A i \in 1..Len(writes) :
              /\ writes[i].data = <<1>>
              /\ writes[i].response
              /\ writes[i].characteristic =
                    (IF radio_in.characteristic_uuid = "None"
                     THEN "0000f001-0000-1000-8000-00805f9b34fb"
                     ELSE radio_in.characteristic_uuid)
        /\ (radio_ret = "True") <=> (Len(writes) = 1 /\ writes[1].outcome = "ok")

-----------------------------------------------------------------------------
(* Endpoint discovery *)

\* the requests made for one function, in order
RECURSIVE ProbedFor(_, _)
ProbedFor(made, endpoint_type) ==
    IF made = <<>> THEN <<>>
    ELSE LET rest == ProbedFor(SubSeq(made, 1, Len(made) - 1), endpoint_type)
             last == made[Len(made)]
         IN  IF last.endpoint_type = endpoint_type THEN Append(rest, last) ELSE rest

\* the requests are grouped by function, upload before wake before info
ProbedInTypeOrder ==
    \A k \in 1..(Len(probes) - 1) :
        LET a == probes[k].endpoint_type
            b == probes[k + 1].endpoint_type
        IN  \/ a = b
            \/ (a = "upload" /\ b = "wake")
            \/ (a = "wake" /\ b = "info")

\* C28: for each function (upload, wake, info) the candidates are requested in
\* their fixed order; the first accepted one is recorded and no later candidate of
\* that function is requested; a status in {200, 400, 405} is accepted for upload
\* and wake, 200 alone for info; an error or timeout on a candidate is not an
\* acceptance and the next candidate is requested; the call returns None exactly
\* when no candidate of any function was accepted.
C28_ProbeOrderAndAcceptance ==
    /\ ProbedInTypeOrder
    /\ probes # <<>> => probes[1].endpoint_type = "upload"
    /\ \A f \in {"upload", "wake", "info"} :
         LET candidates == CASE f = "upload" -> <<"/api/upload", "/upload", "/api/image", "/api/send">>
                             [] f = "wake" -> <<"/api/wake", "/wake", "/api/ping", "/ping">>
                             [] f = "info" -> <<"/api/info", "/info", "/api/status", "/status">>
             mine == ProbedFor(probes, f)
         IN  /\ Len(mine) <= Len(candidates)
             /\ \A i \in 1..Len(mine) : mine[i].path = candidates[i]
             /\ \A i \in 1..Len(mine) : mine[i].accepted => i = Len(mine)
             /\ endpoints[f] = (IF mine # <<>> /\ mine[Len(mine)].accepted
                                THEN mine[Len(mine)].path ELSE "")
             /\ probe_ret # "pending" =>
                   (mine # <<>> /\ (mine[Len(mine)].accepted \/ Len(mine) = Len(candidates)))
             /\ (\E g \in {"wake", "info"} : g # f /\ ProbedFor(probes, g) # <<>>
                     /\ (f = "upload" \/ g = "info")) =>
                   (mine # <<>> /\ (mine[Len(mine)].accepted \/ Len(mine) = Len(candidates)))
    /\ probes # <<>> =>
         LET last == probes[Len(probes)] IN
         last.accepted <=>
            /\ probe_resp.kind = "status"
            /\ IF last.endpoint_type = "info" THEN probe_resp.status = 200
               ELSE probe_resp.status \in {200, 400, 405}
    /\ probe_ret # "pending" =>
         (probe_ret = "None" <=> \A k \in 1..Len(probes) : ~probes[k].accepted)
    /\ probe_ret = "pending" => Len(probes) < 12

\* upload is found at its third candidate after a timeout, wake at once with 405,
\* info answers 405 and 400 and errors and is not found: a dict is returned
C28_Witness ==
    /\ probe_ret = "dict"
    /\ Len(probes) = 8
    /\ endpoints = [upload |-> "/api/image", wake |-> "/api/wake", info |-> ""]
    /\ probe_resp.kind = "status" /\ probe_resp.status = 405

-----------------------------------------------------------------------------
(* The output file and the first play_media call *)

\* C29: in the companion-service delivery the encoded image is written to
\* presence_<entry id>_<timestamp>.jpg under the media root before the first
\* media_player.play_media call; the call is never made when the write failed or
\* the file does not exist afterwards; nothing is written when the companion
\* entity could not be resolved.
C29_WriteBeforePlayMedia ==
    /\ calls # <<>> =>
         /\ written = "ok"
         /\ entity \notin {"unset", "None"}
         /\ timestamp \in 1..MaxTime
         /\ RelativeTo(OutputPath("/media", "presence_" \o cfg.entry_id \o "_"
                                             \o ToString(timestamp) \o ".jpg"), "/media")
               = "bloomin_presence/presence_" \o cfg.entry_id \o "_" \o ToString(timestamp) \o ".jpg"
    /\ written \in {"failed", "missing"} =>
         /\ calls = <<>>
         /\ pc = "done" /\ result = "False"
    /\ entity \in {"unset", "None"} => (written = "unset" /\ calls = <<>>)
    /\ pc = "play_media" => written = "ok"

\* the file is written and the first call is under way
C29_Witness ==
    /\ written = "ok"
    /\ Len(calls) = 1
    /\ entity = "media_player.bloomin8"
    /\ timestamp = 1

-----------------------------------------------------------------------------
(* Output files of two runs *)

\* C30 (as stated): two runs, of different entries or overlapping runs of one
\* entry, write their image to different paths, so the file a run hands to
\* play_media holds that run's image.
C30_NoCollision ==
    /\ \A r \in {1, 2} :
         LET o == IF r = 1 THEN 2 ELSE 1 IN
         (pair[r].pc \in {"written", "handed"} /\ pair[o].pc \in {"written", "handed"}) =>
             pair[r].output_path # pair[o].output_path
    /\ \A r \in {1, 2} : pair[r].pc = "handed" => pair[r].shown = r

-----------------------------------------------------------------------------
(* What a True of process_and_upload_image stands for *)

SomeCallAccepted == \E k \in 1..Len(calls) : calls[k].accepted

\* C33: process_and_upload_image returns True only if in that run a
\* media_player.play_media call for the resolved companion entity completed without
\* error after the rendered image was written to its output file; every run that
\* ends without such a call returns False.
C33_TrueMeansAcceptedCall ==
    /\ result = "True" =>
         /\ pc = "done"
         /\ calls # <<>>
         /\ calls[Len(calls)].accepted
         /\ \A k \in 1..(Len(calls) - 1) : ~calls[k].accepted
         /\ processed = "bytes"
         /\ written = "ok"
         /\ entity \notin {"unset", "None"}
         /\ \E v \in 1..5 : calls[Len(calls)].id = Variants[v]
    /\ (pc = "done" /\ ~SomeCallAccepted) => result = "False"

\* two variants are rejected and the third call completes
C33_Witness ==
    /\ result = "True"
    /\ Len(calls) = 3
    /\ ~calls[2].accepted

-----------------------------------------------------------------------------
(* A run without a person *)

NoPersonFound ==
    \/ cfg.person_entities = <<>>
    \/ (states # <<>> /\ \A p \in DOMAIN states : states[p] = "missing")

WakeDeviceCalls == Cardinality({i \in DOMAIN stages : stages[i] = "WakeDevice"})

\* C34: when no person entity is configured, or none of the configured ones is in
\* the state registry, the run returns False without resolving an image, rendering
\* or delivering, and only after the wake chain has been run; in every run the wake
\* chain is run exactly once, before anything else.
C34_NoPersonEndsAfterWake ==
    /\ (pc = "done" /\ NoPersonFound) =>
         /\ result = "False"
         /\ ble # "untried"
         /\ image = "unset" /\ exists = "unset" /\ source = "unset" /\ processed = "unset"
         /\ entity = "unset" /\ written = "unset" /\ calls = <<>> /\ uploads = 0
         /\ stages = <<"WakeDevice", "Done">>
    /\ result # "idle" =>
         /\ stages[1] = "WakeDevice"
         /\ WakeDeviceCalls = 1
    /\ pc \notin {"idle", "wake_ble"} => ble # "untried"
    /\ (pc \in {"resolve", "render", "deliver_lookup", "write", "play_media"}) =>
         (wake_ret = "None" /\ ~NoPersonFound)

\* both configured persons are missing from the registry after all three wake
\* channels failed
C34_Witness ==
    /\ pc = "done"
    /\ Len(cfg.person_entities) = 2
    /\ states # <<>> /\ \A p \in DOMAIN states : states[p] = "missing"
    /\ ble = "failed" /\ whistle = "failed" /\ http = "failed"
    /\ result = "False"

-----------------------------------------------------------------------------
(* Two runs, one after the other, on one coordinator *)

\* what a run asked of the world, question by question
WakeQuestions == {"radio", "lookup", "services", "whistle", "http"}

Asked(run, q) ==
    CASE q = "radio"    -> run.ble \notin {"untried", "skipped"}
      [] q = "lookup"   -> run.entity # "unset" \/ run.wake_ret = "raised"
      [] q = "services" -> run.env.services # "unread"
      [] q = "whistle"  -> run.env.call # "uncalled"
      [] q = "http"     -> run.http # "untried"

Answer(run, q) ==
    CASE q = "radio"    -> <<run.env.bleak, run.ble>>
      [] q = "lookup"   -> <<run.entity>>
      [] q = "services" -> <<run.env.services>>
      [] q = "whistle"  -> <<run.env.call>>
      [] q = "http"     -> <<run.http>>

\* the world answered the two runs alike, wherever both asked
SameConditions(a, b) ==
    \A q \in WakeQuestions : (Asked(a, q) /\ Asked(b, q)) => Answer(a, q) = Answer(b, q)

PLATFORMS == <<>>

\* hass.config_entries.async_unload_platforms: every platform of the list unloaded
async_unload_platforms(platforms, unloaded) ==
    \A i \in 1..Len(platforms) : unloaded[i]

\* hass.config_entries.async_get_entry(entry_id).title
TitleOf(entry_id) == (CHOOSE e \in DomainEntries : e.entry_id = entry_id).title

\* async_setup_services: async_register for both services
async_setup_services(reg) == [s \in DomainServices |-> reg[s] + 1]

\* async_unload_services: async_remove for both services
async_unload_services(reg) == [s \in DomainServices |-> 0]

\* mutant: the services are set up with every entry
ServicesWantedAlways(setup) == TRUE

\* DOMAIN not in hass.data.get("_services_setup", set())
ServicesWanted(setup) == ~setup

\* async_setup_entry, called by Home Assistant for an entry that is not loaded;
\* it returns True and the entry is loaded
async_setup_entry(e) ==
    /\ entry_state[e] = "not_loaded"
    /\ loaded' = Append(loaded, e)
    /\ IF ServicesWanted(services_setup)
       THEN /\ registered' = async_setup_services(registered)
            /\ services_setup' = TRUE
       ELSE UNCHANGED <<registered, services_setup>>
    /\ entry_state' = [entry_state EXCEPT ![e] = "loaded"]
    /\ UNCHANGED dispatch
    /\ UNCHANGED svc_rest

\* async_unload_entry, called by Home Assistant for a loaded entry; the entry is
\* not loaded any more when it returns a true unload_ok
async_unload_entry(e) ==
    /\ entry_state[e] = "loaded"
    /\ LET unload_ok == async_unload_platforms(PLATFORMS, <<>>)
           data == SelectSeq(loaded, LAMBDA x : x # e)
       IN  IF unload_ok
           THEN /\ loaded' = data
                /\ IF data = <<>>
                   THEN /\ registered' = async_unload_services(registered)
                        /\ services_setup' = FALSE
                   ELSE UNCHANGED <<registered, services_setup>>
                /\ entry_state' = [entry_state EXCEPT ![e] = "not_loaded"]
           ELSE UNCHANGED <<loaded, registered, services_setup, entry_state>>
    /\ UNCHANGED dispatch
    /\ UNCHANGED svc_rest

\* Python's truth of an optional string of the call data: None and "" are false
Truthy(str) == str \notin {"None", ""}

\* the entity_id values a call is made with: none, the empty string, an entry
\* id, a title, the title that is also an entry id, and a string that is neither
CallEntityIds == {"None", "", EntryId, "e2", "e3", "Hall", "nobody"}

\* the image_path values a call is made with: none, the empty string, a file
\* that exists and one that does not
ImagePaths == {"None", "", "/media/a.png", "/media/gone.png"}

PathExists(path) == path = "/media/a.png"

\* mutant: a title is looked for before the entry id
SelectByTitleFirst(data, entity_id) ==
    IF data = <<>> THEN <<>>
    ELSE IF ~Truthy(entity_id) THEN data
    ELSE LET titled == SelectSeq(data, LAMBDA id : TitleOf(id) = entity_id)
         IN  IF titled # <<>> THEN <<Head(titled)>>
             ELSE IF entity_id \in Range(data) THEN <<entity_id>>
             ELSE <<>>

\* the coordinators a service call runs, as the entry ids they belong to: none
\* when the map is empty, all of them without an entity_id, else the one under that
\* entry id, else the first in the map whose entry has that title, else none
SelectCoordinators(data, entity_id) ==
    IF data = <<>> THEN <<>>
    ELSE IF ~Truthy(entity_id) THEN data
    ELSE IF entity_id \in Range(data) THEN <<entity_id>>
    ELSE LET titled == SelectSeq(data, LAMBDA id : TitleOf(id) = entity_id)
         IN  IF titled = <<>> THEN <<>> ELSE <<Head(titled)>>

\* the loop over the coordinators: each run is awaited and gives True or False
\* (process_and_upload_image raises nothing), and the next one follows
ProcessEach(coordinators, path, results) ==
    [i \in 1..Len(coordinators) |->
        [entry_id |-> coordinators[i], image_path |-> path, success |-> results[i]]]

\* update_display_service, one call
update_display_service(entity_id) ==
    /\ registered[SERVICE_UPDATE_DISPLAY] > 0
    /\ LET coordinators == SelectCoordinators(loaded, entity_id)
       IN  \E results \in [1..Len(coordinators) -> {"True", "False"}] :
             dispatch' = [service |-> SERVICE_UPDATE_DISPLAY,
                          entity_id |-> entity_id,
                          image_path |-> "None",
                          data |-> loaded,
                          ran |-> ProcessEach(coordinators, "None", results)]
    /\ UNCHANGED <<loaded, registered, services_setup, entry_state>>
    /\ UNCHANGED svc_rest

\* upload_image_service, one call: a path that is given and does not exist ends
\* the call before any run
upload_image_service(entity_id, image_path_str) ==
    /\ registered[SERVICE_UPLOAD_IMAGE] > 0
    /\ LET coordinators == SelectCoordinators(loaded, entity_id)
           image_path == IF Truthy(image_path_str) THEN image_path_str ELSE "None"
           stopped == loaded # <<>> /\ image_path # "None" /\ ~PathExists(image_path)
           started == IF stopped THEN <<>> ELSE coordinators
       IN  \E results \in [1..Len(started) -> {"True", "False"}] :
             dispatch' = [service |-> SERVICE_UPLOAD_IMAGE,
                          entity_id |-> entity_id,
                          image_path |-> image_path_str,
                          data |-> loaded,
                          ran |-> ProcessEach(started, image_path, results)]
    /\ UNCHANGED <<loaded, registered, services_setup, entry_state>>
    /\ UNCHANGED svc_rest

SvcNext ==
    \/ \E e \in EntryIds : async_setup_entry(e)
    \/ \E e \in EntryIds : async_unload_entry(e)
    \/ \E entity_id \in CallEntityIds : update_display_service(entity_id)
    \/ \E entity_id \in CallEntityIds, image_path_str \in ImagePaths :
         upload_image_service(entity_id, image_path_str)

SvcInit ==
    /\ RunIdle
    /\ RadioIdle /\ FlowIdle /\ GeomIdle /\ ApiIdle /\ ResolverIdle
    /\ RenderIdle /\ LookupIdle /\ ProbeIdle /\ PairIdle /\ RerunIdle /\ SvcIdle

SvcSpec == SvcInit /\ [][SvcNext]_vars


\* both services of the domain are in the service registry
ServicesThere == \A s \in DomainServices : registered[s] > 0

\* the entries Home Assistant holds as loaded
LoadedEntries == {e \in EntryIds : entry_state[e] = "loaded"}

\* C35: across every sequence of async_setup_entry and async_unload_entry calls
\* the two services are registered exactly while at least one entry is loaded:
\* both or neither are there, each was registered once and never again while it
\* was there, and the coordinator map holds exactly the loaded entries, each once.
C35_ServicesWhileLoaded ==
    /\ ServicesThere <=> LoadedEntries # {}
    /\ \A s \in DomainServices : registered[s] > 0 => ServicesThere
    /\ \A s \in DomainServices : registered[s] <= 1
    /\ Range(loaded) = LoadedEntries
    /\ Len(loaded) = Cardinality(LoadedEntries)

\* a second entry was set up while the first was loaded, and the services are
\* there from the first registration
C35_Witness ==
    /\ Len(loaded) = 2
    /\ LoadedEntries = Range(loaded)
    /\ \A s \in DomainServices : registered[s] = 1

\* the entry ids of the runs a service call awaited, in order
RanEntries == [i \in 1..Len(dispatch.ran) |-> dispatch.ran[i].entry_id]

\* the first entry of the map the call found whose title is the entity_id
FirstTitled(data, entity_id) ==
    LET at == {i \in 1..Len(data) : TitleOf(data[i]) = entity_id}
    IN  IF at = {} THEN <<>>
        ELSE <<data[CHOOSE i \in at : \A j \in at : i <= j]>>

\* the upload_image call was given a path at which there is no file
PathMissing ==
    /\ dispatch.service = SERVICE_UPLOAD_IMAGE
    /\ dispatch.image_path \notin {"None", ""}
    /\ ~PathExists(dispatch.image_path)

\* the statement as the specification has it: without an entity_id every loaded
\* coordinator is run, in order, whatever the runs give; with an entity_id the one
\* under that entry id, else the first with that title, else none
C36_AsStated ==
    dispatch.service # "none" =>
        IF dispatch.entity_id = "None"
        THEN RanEntries = dispatch.data
        ELSE IF dispatch.entity_id \in Range(dispatch.data)
        THEN RanEntries = <<dispatch.entity_id>>
        ELSE RanEntries = FirstTitled(dispatch.data, dispatch.entity_id)

\* C36: a service call selects the pipelines it runs as follows. An upload_image
\* call whose image_path is given and names no file runs none. Otherwise, without
\* an entity_id or with an empty one, every loaded coordinator is run once, in the
\* order of the map, and a run that gave False is followed by the remaining runs;
\* with a non-empty entity_id the one coordinator under that entry id is run, or
\* failing that the first whose entry title equals it, or none when nothing
\* matches. Every run is given the image path of the call, or none.
C36_DispatchSelection ==
    dispatch.service # "none" =>
        /\ IF PathMissing
           THEN RanEntries = <<>>
           ELSE IF dispatch.entity_id \in {"None", ""}
           THEN RanEntries = dispatch.data
           ELSE IF dispatch.entity_id \in Range(dispatch.data)
           THEN RanEntries = <<dispatch.entity_id>>
           ELSE RanEntries = FirstTitled(dispatch.data, dispatch.entity_id)
        /\ \A i \in 1..Len(dispatch.ran) :
             dispatch.ran[i].image_path =
                 IF dispatch.image_path = "" THEN "None" ELSE dispatch.image_path

\* a call without entity_id ran three coordinators although the first run gave
\* False, and a call whose entity_id is a title that is also an entry id which is
\* not loaded ran the entry with that title
C36_Witness ==
    \/ /\ dispatch.entity_id = "None"
       /\ Len(dispatch.ran) = 3
       /\ dispatch.ran[1].success = "False"
       /\ dispatch.ran[3].success = "True"
    \/ /\ dispatch.service = SERVICE_UPLOAD_IMAGE
       /\ dispatch.entity_id = "Hall"
       /\ dispatch.data = <<"e2", EntryId>>
       /\ RanEntries = <<"e2">>
       /\ dispatch.image_path = "/media/a.png"


\* the place of a channel in the fallback order
ChannelRank(channel) ==
    IF channel = "BLE" THEN 1
    ELSE IF channel = "eink_display.whistle" THEN 2
    ELSE 3

\* the wake test of validate_input is under way or over
WakeTestBegun ==
    /\ flow_in.flow = "config"
    /\ flow_pc \in {"test_whistle", "test_http", "done"}

RadioConfigured == flow_in.use_ble_wake /\ flow_in.ble_mac_address # ""

\* C37: the wake test of validate_input tries its channels in the order of the
\* run-time chain: the radio first, once and with the timeout of 5 s that is
\* shorter than the default of 10 s, whenever radio wake is configured and never
\* otherwise; the companion whistle only after a radio attempt that did not wake
\* the device; endpoint discovery and the HTTP wake once and only when nothing
\* before woke it; and the attempt that woke the device is the last one made.
C37_SetupTestOrder ==
    flow_in.flow = "config" =>
        /\ \A i, j \in 1..Len(attempts) :
             i < j => /\ ChannelRank(attempts[i].channel) <= ChannelRank(attempts[j].channel)
                      /\ attempts[j].channel # "BLE"
                      /\ attempts[i].channel # "HTTP API"
                      /\ attempts[i].success = "False"
        /\ WakeTestBegun =>
             (RadioConfigured <=> (attempts # <<>> /\ attempts[1].channel = "BLE"))
        /\ (\E i \in 1..Len(attempts) : attempts[i].channel = "BLE") =>
             /\ test_timeout = SETUP_BLE_TIMEOUT
             /\ test_timeout < DEFAULT_BLE_TIMEOUT
        /\ (flow_pc = "done" /\ attempts[Len(attempts)].success = "False") =>
             attempts[Len(attempts)].channel = "HTTP API"
        /\ flow_pc \in {"test_ble", "test_whistle", "test_http"} =>
             \A i \in 1..Len(attempts) : attempts[i].success = "False"

\* the radio and a whistle call failed and the HTTP wake, tested last, woke the
\* device
C37_Witness ==
    /\ flow_in.flow = "config"
    /\ flow_pc = "done"
    /\ test_timeout = SETUP_BLE_TIMEOUT
    /\ attempts = << Attempt("BLE", "False"), Attempt("eink_display.whistle", "False"),
                     Attempt("HTTP API", "True") >>

\* the checks of validate_input before the wake test all pass
ValidationsPass ==
    /\ flow_in.flow = "config"
    /\ ValidateInput(flow_in, flow_in.person_found, flow_in.kind) = "none"

\* the wake test is over and no channel woke the device
AllChannelsFailed ==
    /\ attempts # <<>>
    /\ attempts[Len(attempts)].channel = "HTTP API"
    /\ \A i \in 1..Len(attempts) : attempts[i].success = "False"

\* C38: once the person entity, the image source and the radio address have passed
\* their checks, the submission never comes back to the form and carries no error
\* whatever the channels of the wake test give, and in the end validate_input has
\* returned and the entry is created, also when every channel failed.
C38_WakeTestNeverBlocks ==
    /\ [](ValidationsPass /\ flow_pc # "idle" =>
             /\ flow_pc # "form"
             /\ errors = "none"
             /\ (flow_pc = "done" <=> entry = "created")
             /\ AllChannelsFailed => entry = "created")
    /\ ((ValidationsPass /\ flow_pc # "idle") ~> (flow_pc = "done" /\ entry = "created"))

\* the entry was created after the radio, two whistle calls and the HTTP wake
\* had all failed
C38_Witness ==
    /\ ValidationsPass
    /\ RadioConfigured
    /\ Len(attempts) = 4
    /\ AllChannelsFailed
    /\ entry = "created"


-----------------------------------------------------------------------------
(* Two runs for different devices *)

\* wake_device run on its own with the answers `a`: the channels it attempts, in
\* order and with what each gave, and whether it returns or raises
WakeAlone(a) ==
    LET viaRadio == << <<"BLE", a.ble>> >> IN
    IF AfterBLE(a.ble) = "wake_return" THEN [channels |-> viaRadio, raised |-> FALSE]
    ELSE LET target == AfterCompanionLookup(a.found, a.svc)
             viaHTTP == <<"HTTP", a.http>>
             viaCall == <<"whistle", IF a.call = "ok" THEN "True" ELSE "False">>
         IN  IF target = "except" THEN [channels |-> viaRadio, raised |-> TRUE]
             ELSE IF target = "wake_http"
             THEN [channels |-> Append(viaRadio, viaHTTP), raised |-> FALSE]
             ELSE IF AfterWhistle(a.call) = "wake_return"
             THEN [channels |-> Append(viaRadio, viaCall), raised |-> FALSE]
             ELSE [channels |-> viaRadio \o <<viaCall, viaHTTP>>, raised |-> FALSE]

\* process_and_upload_image run on its own with the answers `a`: what it returns
ResultAlone(a, n) ==
    IF WakeAlone(a).raised THEN "False" ELSE PlayMediaLoop(a.play, 1, n)

\* the two runs are of coordinators of different entries
DifferentDevices == pair # <<>> /\ pair[1].entry_id # pair[2].entry_id

PairOver(r) == pair[r].pc \in {"handed", "done"}

\* C31: when the runs of two coordinators of different entries are interleaved at
\* their suspension points, the channels each run attempts, in order and with
\* their results, and the boolean it returns are those of the run made alone with
\* the same answers of the world; the runs write no common state: the output file
\* of a run is written by that run only, and the file it hands to play_media holds
\* its own image.
C31_RunsIndependent ==
    DifferentDevices =>
        \A r \in PairRuns :
            /\ PairOver(r) =>
                 /\ pair[r].channels = WakeAlone(pair[r].answers).channels
                 /\ pair[r].result =
                      ResultAlone(pair[r].answers,
                                  Len(media_content_id_variants(MediaDir,
                                        ImageFilename(pair[r].entry_id, pair[r].timestamp))))
            /\ ~PairOver(r) => pair[r].result = "running"
            /\ pair[r].pc \in {"written", "handed"} =>
                 /\ OwnerOf(files, pair[r].output_path) = r
                 /\ pair[r].output_path # pair[OtherRun(r)].output_path
            /\ pair[r].pc = "handed" => pair[r].shown = r

\* both runs are over and read the same millisecond: the first woke its device
\* by the whistle after the radio failed and delivered at the second variant, the
\* second went down to a failed HTTP wake and delivered nothing
C31_Witness ==
    /\ DifferentDevices
    /\ pair[1].pc = "handed" /\ pair[2].pc = "handed"
    /\ pair[1].timestamp = pair[2].timestamp
    /\ pair[1].channels = << <<"BLE", "False">>, <<"whistle", "True">> >>
    /\ pair[1].answers.play = 2 /\ pair[1].result = "True"
    /\ pair[2].channels = << <<"BLE", "False">>, <<"whistle", "False">>, <<"HTTP", "False">> >>
    /\ pair[2].result = "False"

====
